---- MODULE Spec2Model ----
(***************************************************************************)
(* A model of the JMX compiler of backend/services/jmx_generator.py:        *)
(* the validator (validate_xml), the parameterization engine               *)
(* (_parameterize_json_body), the auxiliary file processor, the context     *)
(* builder, the document assembler and the generate/validate loop.          *)
(*                                                                          *)
(* A document is the sequence of XML tokens of the string the code builds;  *)
(* a text value is one of a small set of strings whose markup content is    *)
(* given by tables (Escape, Tok).                                           *)
(***************************************************************************)
EXTENDS Integers, Sequences, FiniteSets, TLC

VARIABLES
    v_doc,        \* validate_xml: the string handed to it (a token sequence)
    v_result,     \* validate_xml: its (is_valid, message) result, or None
    v_pc,         \* "build" while the input is put together, "done" after the call
    p_body,       \* _parameterize_json_body: the json_body string handed to it
    p_csv,        \* _parameterize_json_body: the CsvInfo handed to it
    p_out,        \* _parameterize_json_body: the string it returned, or None
    p_req,        \* the HttpRequestInfo built from the returned string, or None
    p_twice,      \* what a second call returns for the string the first returned
    p_pc,         \* "call" before the call, "done" after it, "idle" when unused
    f_mode,       \* "jmx": _safe_process_files runs, "upload": process_uploaded_files
    f_files,      \* the list of files handed to the file processing
    f_csv,        \* _safe_process_files: csv_configs_dict, or None
    f_json,       \* _safe_process_files: the outcome of _process_json_files, or None
    f_result,     \* _safe_process_files: the dict it returned, or None
    f_records,    \* process_uploaded_files: processed_files so far
    f_i,          \* process_uploaded_files: position of the loop over files
    f_pc,         \* position of the file processing, "idle" when unused
    g_in,         \* per invocation: the requirements and files_data it was given
    g_proc,       \* per invocation: the server process that runs it
    g_seed,       \* per process: the seed of str hashes, drawn at its start
    g_templates,  \* per process: jmx_templates of its JMXGeneratorService
    g_llm_service,\* per process: _llm_service of its JMXGeneratorService
    g_ctx,        \* the GenerationContext held in each place one is kept
    g_local,      \* per invocation: the locals of generate_jmx_with_retry
    a_req,        \* one compilation: what the requirements analysis extracted
    a_files,      \* one compilation: files_data
    a_plan,       \* one compilation: test_plan_data, parsed from the LLM response
    a_seed,       \* one compilation: the seed of str hashes of its process
    a_ctx,        \* one compilation: the GenerationContext
    a_doc,        \* one compilation: the assembled document
    a_pc,         \* one compilation: its position, "idle" when unused
    s_file,       \* one uploaded file: its name and its text
    s_out,        \* one uploaded file: what processing it returned
    s_pc,         \* one uploaded file: "start", then the function that ran
    h_ctx,        \* prompt builder: the GenerationContext handed to it
    h_guide,      \* prompt builder: json_structure_guide, lists held by reference
    h_heap,       \* prompt builder: the pattern lists it created, by reference
    h_pc,         \* prompt builder: "build", "built", then "changed"
    m_llm_services, \* main: the dict _llm_services
    m_llm_lock,   \* main: the thread that holds _llm_services_lock, 0 when free
    m_jmx_service,\* main: the global _jmx_service, <<>> for None
    m_jmx_lock,   \* main: the thread that holds _jmx_service_lock, 0 when free
    m_cache,      \* main: the one entry of lru_cache around get_jmx_service
    m_made,       \* main: the service objects constructed so far
    m_thread      \* main: per thread, its call, its position and its locals

valVars == <<v_doc, v_result, v_pc>>
paramVars == <<p_body, p_csv, p_out, p_req, p_twice, p_pc>>
fileVars == <<f_mode, f_files, f_csv, f_json, f_result, f_records, f_i, f_pc>>
genVars == <<g_in, g_proc, g_seed, g_templates, g_llm_service, g_ctx, g_local>>
asmVars == <<a_req, a_files, a_plan, a_seed, a_ctx, a_doc, a_pc>>
singleVars == <<s_file, s_out, s_pc>>
promptVars == <<h_ctx, h_guide, h_heap, h_pc>>
mainVars == <<m_llm_services, m_llm_lock, m_jmx_service, m_jmx_lock, m_cache, m_made, m_thread>>
vars == <<valVars, paramVars, fileVars, genVars, asmVars, singleVars, promptVars, mainVars>>

None == "None"

(***************************************************************************)
(* Bounds of the model.                                                     *)
(***************************************************************************)
MaxDocLen == 5
MaxDepth == 1
MaxFiles == 2

(***************************************************************************)
(* One specification exercises one part of the program; the variables of    *)
(* the other parts stay as they are set here.                               *)
(***************************************************************************)
ValIdle ==
    /\ v_doc = <<>>
    /\ v_result = None
    /\ v_pc = "idle"

ParamIdle ==
    /\ p_body = None
    /\ p_csv = None
    /\ p_out = None
    /\ p_req = None
    /\ p_twice = None
    /\ p_pc = "idle"

FileIdle ==
    /\ f_mode = None
    /\ f_files = <<>>
    /\ f_csv = None
    /\ f_json = None
    /\ f_result = None
    /\ f_records = <<>>
    /\ f_i = 0
    /\ f_pc = "idle"

GenIdle ==
    /\ g_in = <<>>
    /\ g_proc = <<>>
    /\ g_seed = <<>>
    /\ g_templates = <<>>
    /\ g_llm_service = <<>>
    /\ g_ctx = <<>>
    /\ g_local = <<>>

AsmIdle ==
    /\ a_req = <<>>
    /\ a_files = <<>>
    /\ a_plan = <<>>
    /\ a_seed = 0
    /\ a_ctx = <<>>
    /\ a_doc = <<>>
    /\ a_pc = "idle"

SingleIdle ==
    /\ s_file = <<>>
    /\ s_out = <<>>
    /\ s_pc = "idle"

PromptIdle ==
    /\ h_ctx = <<>>
    /\ h_guide = <<>>
    /\ h_heap = <<>>
    /\ h_pc = "idle"

MainIdle ==
    /\ m_llm_services = <<>>
    /\ m_llm_lock = 0
    /\ m_jmx_service = <<>>
    /\ m_jmx_lock = 0
    /\ m_cache = <<>>
    /\ m_made = <<>>
    /\ m_thread = <<>>

valOthers == <<paramVars, fileVars, genVars, asmVars, singleVars, promptVars, mainVars>>
paramOthers == <<valVars, fileVars, genVars, asmVars, singleVars, promptVars, mainVars>>
fileOthers == <<valVars, paramVars, genVars, asmVars, singleVars, promptVars, mainVars>>
genOthers == <<valVars, paramVars, fileVars, asmVars, singleVars, promptVars, mainVars>>
asmOthers == <<valVars, paramVars, fileVars, genVars, singleVars, promptVars, mainVars>>
singleOthers == <<valVars, paramVars, fileVars, genVars, asmVars, promptVars, mainVars>>
promptOthers == <<valVars, paramVars, fileVars, genVars, asmVars, singleVars, mainVars>>
mainOthers == <<valVars, paramVars, fileVars, genVars, asmVars, singleVars, promptVars>>
ValOthersIdle == ParamIdle /\ FileIdle /\ GenIdle /\ AsmIdle /\ SingleIdle /\ PromptIdle /\ MainIdle
ParamOthersIdle == ValIdle /\ FileIdle /\ GenIdle /\ AsmIdle /\ SingleIdle /\ PromptIdle /\ MainIdle
FileOthersIdle == ValIdle /\ ParamIdle /\ GenIdle /\ AsmIdle /\ SingleIdle /\ PromptIdle /\ MainIdle
GenOthersIdle == ValIdle /\ ParamIdle /\ FileIdle /\ AsmIdle /\ SingleIdle /\ PromptIdle /\ MainIdle
AsmOthersIdle == ValIdle /\ ParamIdle /\ FileIdle /\ GenIdle /\ SingleIdle /\ PromptIdle /\ MainIdle
SingleOthersIdle == ValIdle /\ ParamIdle /\ FileIdle /\ GenIdle /\ AsmIdle /\ PromptIdle /\ MainIdle
PromptOthersIdle == ValIdle /\ ParamIdle /\ FileIdle /\ GenIdle /\ AsmIdle /\ SingleIdle /\ MainIdle
MainOthersIdle == ValIdle /\ ParamIdle /\ FileIdle /\ GenIdle /\ AsmIdle /\ SingleIdle /\ PromptIdle

(***************************************************************************)
(* XML tokens.  k is the kind of the token, tag its element name, v the     *)
(* character data or the attribute value it carries.                        *)
(***************************************************************************)
Decl == [k |-> "decl", tag |-> "xml", v |-> ""]
Ws == [k |-> "ws", tag |-> "", v |-> ""]
Bad == [k |-> "bad", tag |-> "", v |-> ""]
Open(t) == [k |-> "open", tag |-> t, v |-> ""]
OpenA(t, a) == [k |-> "open", tag |-> t, v |-> a]
Close(t) == [k |-> "close", tag |-> t, v |-> ""]
Empty(t) == [k |-> "empty", tag |-> t, v |-> ""]
Text(s) == [k |-> "text", tag |-> "", v |-> s]

RootOpen == Open("jmeterTestPlan")
RootClose == Close("jmeterTestPlan")
HtOpen == Open("hashTree")
HtClose == Close("hashTree")
HtEmpty == Empty("hashTree")

(***************************************************************************)
(* str.strip(): the leading and trailing whitespace is dropped.             *)
(***************************************************************************)
RECURSIVE StripLeft(_)
StripLeft(s) ==
    IF s = <<>> THEN <<>>
    ELSE IF Head(s) = Ws THEN StripLeft(Tail(s)) ELSE s

RECURSIVE StripRight(_)
StripRight(s) ==
    IF s = <<>> THEN <<>>
    ELSE IF s[Len(s)] = Ws THEN StripRight(SubSeq(s, 1, Len(s) - 1)) ELSE s

Strip(s) == StripRight(StripLeft(s))

\* str.count(token)
Count(s, t) == Cardinality({i \in 1..Len(s) : s[i] = t})

(***************************************************************************)
(* ET.fromstring: the string is well-formed XML.  The declaration may only  *)
(* open the string, character data and markup need an open element, there   *)
(* is exactly one root element, and every closing tag closes the element    *)
(* opened last.                                                             *)
(***************************************************************************)
ParseState(stack, seenRoot, ok) == [stack |-> stack, seenRoot |-> seenRoot, ok |-> ok]

\* the parser after the token t at position i
ParseStep(st, t, i) ==
    IF ~st.ok THEN st
    ELSE CASE t.k = "decl" -> ParseState(st.stack, st.seenRoot, i = 1)
           [] t.k = "ws" -> st
           [] t.k = "text" -> ParseState(st.stack, st.seenRoot, st.stack # <<>>)
           [] t.k = "open" ->
                ParseState(<<t.tag>> \o st.stack, st.seenRoot,
                           ~(st.stack = <<>> /\ st.seenRoot))
           [] t.k = "empty" ->
                ParseState(st.stack, st.seenRoot \/ st.stack = <<>>,
                           ~(st.stack = <<>> /\ st.seenRoot))
           [] t.k = "close" ->
                IF st.stack # <<>> /\ Head(st.stack) = t.tag
                THEN ParseState(Tail(st.stack), st.seenRoot \/ Len(st.stack) = 1, TRUE)
                ELSE ParseState(st.stack, st.seenRoot, FALSE)
           [] OTHER -> ParseState(st.stack, st.seenRoot, FALSE)

\* the parser after the tokens lo..hi of s, halving the range
RECURSIVE ParseRange(_, _, _, _)
ParseRange(s, lo, hi, st) ==
    IF lo > hi THEN st
    ELSE IF lo = hi THEN ParseStep(st, s[lo], lo)
    ELSE LET mid == (lo + hi) \div 2
             left == ParseRange(s, lo, mid, st)
         IN IF left.ok THEN ParseRange(s, mid + 1, hi, left) ELSE left

ET_fromstring(s) ==
    LET st == ParseRange(s, 1, Len(s), ParseState(<<>>, FALSE, TRUE))
    IN st.ok /\ st.stack = <<>> /\ st.seenRoot

(***************************************************************************)
(* validate_xml: the five checks and their messages.                        *)
(***************************************************************************)
MsgEmpty == "XML content is empty or whitespace."
MsgNoDecl == "Validation failed: Missing XML declaration '<?xml ...?>'."
MsgNoRootClose == "Validation failed: Content does not end with '</jmeterTestPlan>'."
MsgHashTree == "Validation failed: Mismatched <hashTree> tags"
MsgParseError == "XML ParseError: The generated XML is not well-formed."
MsgValid == "XML validation successful."

NonEmpty(xml) == Strip(xml) # <<>>
StartsWithDecl(xml) == Strip(xml) # <<>> /\ Head(Strip(xml)) = Decl
EndsWithRootClose(xml) == Strip(xml) # <<>> /\ Strip(xml)[Len(Strip(xml))] = RootClose
HashTreeBalanced(xml) == Count(Strip(xml), HtOpen) = Count(Strip(xml), HtClose)
WellFormed(xml) == ET_fromstring(Strip(xml))

\* The same checks in another order: a validator that parses before it counts
\* and tests the end of the string before its start.
validate_xml_reordered(xml) ==
    IF ~NonEmpty(xml) THEN <<FALSE, MsgEmpty>>
    ELSE IF ~EndsWithRootClose(xml) THEN <<FALSE, MsgNoRootClose>>
    ELSE IF ~StartsWithDecl(xml) THEN <<FALSE, MsgNoDecl>>
    ELSE IF ~WellFormed(xml) THEN <<FALSE, MsgParseError>>
    ELSE IF ~HashTreeBalanced(xml) THEN <<FALSE, MsgHashTree>>
    ELSE <<TRUE, MsgValid>>

validate_xml(xml) ==
    IF ~NonEmpty(xml) THEN <<FALSE, MsgEmpty>>
    ELSE IF ~StartsWithDecl(xml) THEN <<FALSE, MsgNoDecl>>
    ELSE IF ~EndsWithRootClose(xml) THEN <<FALSE, MsgNoRootClose>>
    ELSE IF ~HashTreeBalanced(xml) THEN <<FALSE, MsgHashTree>>
    ELSE IF ~WellFormed(xml) THEN <<FALSE, MsgParseError>>
    ELSE <<TRUE, MsgValid>>

(***************************************************************************)
(* The validator on its own: a string is put together token by token and    *)
(* then handed to validate_xml.                                             *)
(***************************************************************************)
ValTokens == {Decl, Ws, RootOpen, RootClose, HtOpen, HtClose}

ValInit ==
    /\ v_doc = <<>>
    /\ v_result = None
    /\ v_pc = "build"
    /\ ValOthersIdle

ValAppend ==
    /\ v_pc = "build"
    /\ Len(v_doc) < MaxDocLen
    /\ \E t \in ValTokens : v_doc' = Append(v_doc, t)
    /\ UNCHANGED <<v_result, v_pc>>
    /\ UNCHANGED valOthers

ValValidate ==
    /\ v_pc = "build"
    /\ v_result' = validate_xml(v_doc)
    /\ v_pc' = "done"
    /\ UNCHANGED v_doc
    /\ UNCHANGED valOthers

ValNext == ValAppend \/ ValValidate

SpecValidate == ValInit /\ [][ValNext]_vars

MinOf(S) == CHOOSE x \in S : \A y \in S : x <= y
MaxOf(S) == CHOOSE x \in S : \A y \in S : x >= y

\* The five checks by position, (a) to (e), and the message of each.
Check(i, xml) ==
    CASE i = 1 -> NonEmpty(xml)
      [] i = 2 -> StartsWithDecl(xml)
      [] i = 3 -> EndsWithRootClose(xml)
      [] i = 4 -> HashTreeBalanced(xml)
      [] i = 5 -> WellFormed(xml)

CheckMsg(i) ==
    CASE i = 1 -> MsgEmpty
      [] i = 2 -> MsgNoDecl
      [] i = 3 -> MsgNoRootClose
      [] i = 4 -> MsgHashTree
      [] i = 5 -> MsgParseError

FailingChecks(xml) == {i \in 1..5 : ~Check(i, xml)}

\* C2: validate_xml reports the earliest failing check of (a) non-empty,
\* (b) declaration, (c) root closing tag, (d) hashTree counts, (e) parse; the
\* five messages differ pairwise; the result is true only when all five pass.
C2_FirstFailingCheckDecides ==
    v_pc = "done" =>
        LET failing == FailingChecks(v_doc) IN
        /\ failing = {} => v_result = <<TRUE, MsgValid>>
        /\ failing # {} => v_result = <<FALSE, CheckMsg(MinOf(failing))>>
        /\ v_result[1] <=> failing = {}
        /\ \A i, j \in 1..5 : i # j => CheckMsg(i) # CheckMsg(j)

\* C2 witness: a string that fails (d) and (e) but passes (a), (b), (c) was
\* validated and the message is the one of (d).
C2_Witness ==
    /\ v_pc = "done"
    /\ FailingChecks(v_doc) = {4, 5}
    /\ v_result = <<FALSE, MsgHashTree>>

(***************************************************************************)
(* JSON values, as json.loads builds them: a string, a number, a boolean,   *)
(* an object (a function from its keys to values) or an array.              *)
(***************************************************************************)
JStr(x) == [t |-> "str", s |-> x]
JNum(x) == [t |-> "num", n |-> x]
JBool(x) == [t |-> "bool", b |-> x]
JObj(fn) == [t |-> "obj", f |-> fn]
JArr(sq) == [t |-> "arr", items |-> sq]
JNull == [t |-> "null"]

IsContainer(v) == v.t \in {"obj", "arr"}

(***************************************************************************)
(* A body string.  fmt is the layout of the text ("compact" as uploaded,    *)
(* "indent4" as json.dumps(indent=4) writes it), val the value it parses    *)
(* to.  A scalar and an empty container have one layout only.  "invalid"    *)
(* is text json.loads rejects with JSONDecodeError, "too_deep" text whose   *)
(* nesting makes it raise RecursionError, "empty" the empty string.         *)
(***************************************************************************)
HasLayout(v) ==
    \/ v.t = "obj" /\ DOMAIN v.f # {}
    \/ v.t = "arr" /\ v.items # <<>>

BodyText(fmt, v) == [fmt |-> IF HasLayout(v) THEN fmt ELSE "indent4", val |-> v]
InvalidBody == [fmt |-> "invalid", val |-> JNull]
TooDeepBody == [fmt |-> "too_deep", val |-> JNull]
EmptyBody == [fmt |-> "empty", val |-> JNull]

JSONDecodeError == [t |-> "JSONDecodeError"]
RecursionError == [t |-> "RecursionError"]

json_loads(body) ==
    CASE body.fmt = "invalid" -> JSONDecodeError
      [] body.fmt = "empty" -> JSONDecodeError
      [] body.fmt = "too_deep" -> RecursionError
      [] OTHER -> body.val

\* json.dumps(obj, indent=4, ensure_ascii=False)
json_dumps(v) == BodyText("indent4", v)

(***************************************************************************)
(* Cells of a CSV file and str.strip() on them.                             *)
(***************************************************************************)
StripS(c) ==
    CASE c = " X " -> "X"
      [] c = " " -> ""
      [] c = " id " -> "id"
      [] OTHER -> c

\* f"${{{variable}}}"
Placeholder(name) == "${" \o name \o "}"

\* str(value) of a parsed JSON value
PyStr(v) ==
    CASE v.t = "str" -> v.s
      [] v.t = "num" -> ToString(v.n)
      [] v.t = "bool" -> IF v.b THEN "True" ELSE "False"
      [] v.t = "null" -> "None"
      [] v.t = "arr" -> IF v.items = <<>> THEN "[]" ELSE "[...]"
      [] v.t = "obj" -> IF DOMAIN v.f = {} THEN "{}" ELSE "{...}"

(***************************************************************************)
(* CsvInfo (lines 26-31).  raw_content is the text of the file, held as the *)
(* rows csv.reader yields for it, the header line first.                    *)
(***************************************************************************)
CsvInfo(fname, names, total, raw) ==
    [filename |-> fname, variable_names |-> names, total_rows |-> total,
     raw_content |-> raw]

\* next(csv_reader, None) twice: the row after the header line, if any
FirstDataRow(raw) ==
    IF Len(raw) >= 2 THEN [some |-> TRUE, row |-> raw[2]]
    ELSE [some |-> FALSE, row |-> <<>>]

\* the pairs zip(variable_names, first_data_row) yields, by position
ZipLen(names, row) == IF Len(names) <= Len(row) THEN Len(names) ELSE Len(row)

\* The dict comprehension without its filter: blank cells get an entry too.
ValueMapKeepBlank(names, row) ==
    LET idx == 1..ZipLen(names, row) IN
    [c \in {StripS(row[i]) : i \in idx} |->
        Placeholder(names[MaxOf({i \in idx : StripS(row[i]) = c})])]

\* The dict comprehension keeping the first of two equal cells, not the last.
ValueMapFirstWins(names, row) ==
    LET idx == {i \in 1..ZipLen(names, row) : StripS(row[i]) # ""} IN
    [c \in {StripS(row[i]) : i \in idx} |->
        Placeholder(names[MinOf({i \in idx : StripS(row[i]) = c})])]

\* value_to_placeholder_map (lines 1287-1293): a later pair with the same
\* stripped value overwrites an earlier one.
ValueMap(names, row) ==
    LET idx == {i \in 1..ZipLen(names, row) : StripS(row[i]) # ""} IN
    [c \in {StripS(row[i]) : i \in idx} |->
        Placeholder(names[MaxOf({i \in idx : StripS(row[i]) = c})])]

value_to_placeholder_map(csv) ==
    LET first_data_row == FirstDataRow(csv.raw_content) IN
    IF ~first_data_row.some \/ first_data_row.row = <<>> THEN <<>>
    ELSE ValueMap(csv.variable_names, first_data_row.row)

(***************************************************************************)
(* recursive_replace (lines 1302-1333): the value after the in-place walk.  *)
(***************************************************************************)
\* The walk with the two strategies swapped: value match before key match.
RECURSIVE ReplaceValueFirst(_, _, _)
ReplaceValueFirst(obj, variable_set, map) ==
    CASE obj.t = "obj" ->
            JObj([key \in DOMAIN obj.f |->
                LET value == obj.f[key] IN
                IF PyStr(value) \in DOMAIN map THEN JStr(map[PyStr(value)])
                ELSE IF key \in variable_set THEN JStr(Placeholder(key))
                ELSE IF IsContainer(value)
                     THEN ReplaceValueFirst(value, variable_set, map)
                ELSE value])
      [] obj.t = "arr" ->
            JArr([i \in 1..Len(obj.items) |->
                ReplaceValueFirst(obj.items[i], variable_set, map)])
      [] OTHER -> obj

RECURSIVE recursive_replace(_, _, _)
recursive_replace(obj, variable_set, map) ==
    CASE obj.t = "obj" ->
            JObj([key \in DOMAIN obj.f |->
                LET value == obj.f[key] IN
                IF key \in variable_set THEN JStr(Placeholder(key))
                ELSE IF PyStr(value) \in DOMAIN map THEN JStr(map[PyStr(value)])
                ELSE IF IsContainer(value)
                     THEN recursive_replace(value, variable_set, map)
                ELSE value])
      [] obj.t = "arr" ->
            JArr([i \in 1..Len(obj.items) |->
                recursive_replace(obj.items[i], variable_set, map)])
      [] OTHER -> obj

SeqRange(sq) == {sq[i] : i \in 1..Len(sq)}

(***************************************************************************)
(* _parameterize_json_body (lines 1261-1356).  Raised is the result of a    *)
(* call that lets an exception reach its caller.                            *)
(***************************************************************************)
Raised == [fmt |-> "raised", val |-> JNull]

\* The handlers of lines 1351-1356 left out: the error reaches the caller.
ParameterizeNoHandler(json_body, csv_info) ==
    IF json_body.fmt = "empty" \/ csv_info.raw_content = <<>>
       \/ csv_info.variable_names = <<>>
    THEN json_body
    ELSE LET data_obj == json_loads(json_body) IN
         IF data_obj \in {JSONDecodeError, RecursionError} THEN Raised
         ELSE json_dumps(recursive_replace(data_obj,
                                           SeqRange(csv_info.variable_names),
                                           value_to_placeholder_map(csv_info)))

parameterize_json_body(json_body, csv_info) ==
    IF json_body.fmt = "empty" \/ csv_info.raw_content = <<>>
       \/ csv_info.variable_names = <<>>
    THEN json_body
    ELSE LET data_obj == json_loads(json_body) IN
         IF data_obj = JSONDecodeError THEN json_body
         ELSE IF data_obj = RecursionError THEN json_body
         ELSE json_dumps(recursive_replace(data_obj,
                                           SeqRange(csv_info.variable_names),
                                           value_to_placeholder_map(csv_info)))

(***************************************************************************)
(* HttpRequestInfo (lines 33-40) as _prepare_generation_context builds it   *)
(* from a body and a data set it found (lines 492-508).                     *)
(***************************************************************************)
HttpRequestInfo(nm, body, src, flag) ==
    [name |-> nm, json_body |-> body, source_json_filename |-> src,
     method |-> "POST", is_parameterized |-> flag]

NoCsv == [filename |-> None]

BuildRequest(nm, src, original_json_body, csv_info) ==
    IF original_json_body.fmt # "empty" /\ csv_info # NoCsv
    THEN HttpRequestInfo(nm, parameterize_json_body(original_json_body, csv_info),
                         src, TRUE)
    ELSE HttpRequestInfo(nm, original_json_body, src, FALSE)

(***************************************************************************)
(* The parameterization engine on its own: a body and a data set are        *)
(* chosen, and the request of lines 492-508 is built from them.             *)
(***************************************************************************)
Obj1(k, v) == JObj([x \in {k} |-> v])
Obj2(k1, v1, k2, v2) == JObj([x \in {k1, k2} |-> IF x = k1 THEN v1 ELSE v2])

Scalars == {JStr("X"), JStr("Y"), JStr(""), JNum(1), JArr(<<>>)}

FlatValues ==
    {Obj1(k, v) : k \in {"id", "status"}, v \in Scalars}
    \cup {Obj2("id", v1, "status", v2) : v1 \in Scalars, v2 \in Scalars}
    \cup {JObj(<<>>), JStr("X")}

RECURSIVE ValuesUpTo(_)
ValuesUpTo(d) ==
    IF d = 0 THEN FlatValues
    ELSE LET B == ValuesUpTo(d - 1) IN
         B \cup {Obj1("data", b) : b \in B} \cup {Obj1("id", b) : b \in B}
           \cup {JArr(<<b>>) : b \in B}

ParamBodies ==
    {BodyText(fmt, v) : fmt \in {"compact", "indent4"}, v \in ValuesUpTo(MaxDepth)}
    \cup {InvalidBody, TooDeepBody, EmptyBody}

\* cleaned_headers of _safe_process_single_csv (line 1041)
RECURSIVE CleanHeaders(_)
CleanHeaders(headers) ==
    IF headers = <<>> THEN <<>>
    ELSE IF StripS(Head(headers)) # ""
         THEN <<StripS(Head(headers))>> \o CleanHeaders(Tail(headers))
         ELSE CleanHeaders(Tail(headers))

HeaderRows ==
    {<<"id">>, <<"id", "code">>, <<"code", "id">>, <<"", "code">>, <<" id ">>, <<"">>}

DataRows ==
    {<<>>, <<"X">>, <<"X", "X">>, <<"Y", "X">>, <<" X ", "1">>, <<"", "X">>,
     <<"[]", " ">>, <<"X", "${id}">>}

\* a file with a header line only, or with one data row after it
ParamCsvs ==
    {CsvInfo("data.csv", CleanHeaders(h), 0, <<h>>) : h \in HeaderRows}
    \cup {CsvInfo("data.csv", CleanHeaders(h), 1, <<h, r>>) :
             h \in HeaderRows, r \in DataRows}

ParamInit ==
    /\ p_body \in ParamBodies
    /\ p_csv \in ParamCsvs
    /\ p_out = None
    /\ p_req = None
    /\ p_twice = None
    /\ p_pc = "call"
    /\ ParamOthersIdle

ParamCall ==
    /\ p_pc = "call"
    /\ p_out' = parameterize_json_body(p_body, p_csv)
    /\ p_req' = BuildRequest("TG-A", "body.json", p_body, p_csv)
    /\ p_pc' = "done"
    /\ UNCHANGED <<p_body, p_csv, p_twice>>
    /\ UNCHANGED paramOthers

\* the function applied to its own output with the same data set
ParamAgain ==
    /\ p_pc = "done"
    /\ p_twice' = parameterize_json_body(p_out, p_csv)
    /\ p_pc' = "again"
    /\ UNCHANGED <<p_body, p_csv, p_out, p_req>>
    /\ UNCHANGED paramOthers

ParamNext ==
    \/ ParamCall
    \/ ParamAgain

SpecParam == ParamInit /\ [][ParamNext]_vars

(***************************************************************************)
(* Properties of the parameterization engine.                              *)
(***************************************************************************)
Parseable(body) == body.fmt \in {"compact", "indent4"}

\* the call got past the guard of line 1269 and parsed the body
ParamRan ==
    /\ p_pc = "done"
    /\ Parseable(p_body)
    /\ p_csv.variable_names # <<>>

ParamNames == p_csv.variable_names
ParamRow == FirstDataRow(p_csv.raw_content).row
ParamVars == SeqRange(ParamNames)

\* positions of the zipped pair whose trimmed, non-blank cell is the text s
Hits(s) ==
    {i \in 1..ZipLen(ParamNames, ParamRow) :
        StripS(ParamRow[i]) # "" /\ StripS(ParamRow[i]) = s}

RECURSIVE KeyRule(_, _)
KeyRule(orig, res) ==
    CASE orig.t = "obj" ->
            /\ res.t = "obj"
            /\ DOMAIN res.f = DOMAIN orig.f
            /\ \A k \in DOMAIN orig.f :
                IF k \in ParamVars THEN res.f[k] = JStr(Placeholder(k))
                ELSE IF Hits(PyStr(orig.f[k])) # {} THEN TRUE
                ELSE KeyRule(orig.f[k], res.f[k])
      [] orig.t = "arr" ->
            /\ res.t = "arr"
            /\ Len(res.items) = Len(orig.items)
            /\ \A i \in 1..Len(orig.items) : KeyRule(orig.items[i], res.items[i])
      [] OTHER -> TRUE

\* C3: every visited key that is one of the data set's variable names gets
\* the placeholder of that key as its whole value, whatever the old value was
\* (a container, or a value equal to another variable's first-row cell).
C3_KeyMatchWins ==
    ParamRan => KeyRule(json_loads(p_body), json_loads(p_out))

\* C3 witness: the key "id" is a variable, its old value is the first-row
\* cell of the other variable, and the result holds ${id} there.
C3_Witness ==
    /\ ParamRan
    /\ json_loads(p_body).t = "obj"
    /\ \E k \in DOMAIN json_loads(p_body).f :
        /\ k \in ParamVars
        /\ \E i \in Hits(PyStr(json_loads(p_body).f[k])) : ParamNames[i] # k
        /\ json_loads(p_out).f[k] = JStr(Placeholder(k))

RECURSIVE ValueRule(_, _)
ValueRule(orig, res) ==
    CASE orig.t = "obj" ->
            /\ res.t = "obj"
            /\ DOMAIN res.f = DOMAIN orig.f
            /\ \A k \in DOMAIN orig.f :
                LET hits == Hits(PyStr(orig.f[k])) IN
                IF k \in ParamVars THEN TRUE
                ELSE IF hits # {}
                     THEN res.f[k] = JStr(Placeholder(ParamNames[MaxOf(hits)]))
                ELSE IF IsContainer(orig.f[k]) THEN ValueRule(orig.f[k], res.f[k])
                ELSE res.f[k] = orig.f[k]
      [] orig.t = "arr" ->
            /\ res.t = "arr"
            /\ Len(res.items) = Len(orig.items)
            /\ \A i \in 1..Len(orig.items) : ValueRule(orig.items[i], res.items[i])
      [] OTHER -> res = orig

\* C4 (amended): a value under a key that is not a variable name is replaced
\* exactly when its str() equals the trimmed, non-blank first-row cell zipped
\* with some variable, and then by the placeholder of the LAST such variable;
\* the map has no entry for a blank cell and none at all without a data row.
C4_ValueMatchLastTrimmed ==
    ParamRan =>
        /\ ValueRule(json_loads(p_body), json_loads(p_out))
        /\ DOMAIN value_to_placeholder_map(p_csv)
             = {StripS(ParamRow[i]) : i \in 1..ZipLen(ParamNames, ParamRow)} \ {""}
        /\ ~FirstDataRow(p_csv.raw_content).some
              => value_to_placeholder_map(p_csv) = <<>>

\* C4 witness: two variables share the first-row cell and a value under a
\* key that is no variable was replaced by the placeholder of the later one.
C4_Witness ==
    /\ ParamRan
    /\ json_loads(p_body).t = "obj"
    /\ \E k \in DOMAIN json_loads(p_body).f :
        LET hits == Hits(PyStr(json_loads(p_body).f[k])) IN
        /\ k \notin ParamVars
        /\ Cardinality(hits) = 2
        /\ json_loads(p_out).f[k] = JStr(Placeholder(ParamNames[MaxOf(hits)]))
        /\ json_loads(p_out).f[k] # json_loads(p_body).f[k]

RECURSIVE ValueRuleAsStated(_, _)
ValueRuleAsStated(orig, res) ==
    CASE orig.t = "obj" ->
            \A k \in DOMAIN orig.f :
                IF k \in ParamVars THEN TRUE
                ELSE /\ \A i \in 1..Len(ParamNames) :
                          res.f[k] = JStr(Placeholder(ParamNames[i]))
                          <=> /\ i <= Len(ParamRow)
                              /\ StripS(ParamRow[i]) # ""
                              /\ ParamRow[i] = PyStr(orig.f[k])
                     /\ (res.f[k] = orig.f[k] /\ IsContainer(orig.f[k]))
                          => ValueRuleAsStated(orig.f[k], res.f[k])
      [] orig.t = "arr" ->
            \A i \in 1..Len(orig.items) :
                ValueRuleAsStated(orig.items[i], res.items[i])
      [] OTHER -> TRUE

\* C4 as stated: the value becomes ${v} exactly when its str() equals the
\* first-row cell of variable v.
C4_ValueMatchAsStated ==
    ParamRan => ValueRuleAsStated(json_loads(p_body), json_loads(p_out))

RECURSIVE KeysOf(_)
KeysOf(v) ==
    CASE v.t = "obj" -> DOMAIN v.f \cup UNION {KeysOf(v.f[k]) : k \in DOMAIN v.f}
      [] v.t = "arr" -> UNION {KeysOf(v.items[i]) : i \in 1..Len(v.items)}
      [] OTHER -> {}

\* str() of every value held under some key, at any depth
RECURSIVE KeyedTexts(_)
KeyedTexts(v) ==
    CASE v.t = "obj" -> {PyStr(v.f[k]) : k \in DOMAIN v.f}
                        \cup UNION {KeyedTexts(v.f[k]) : k \in DOMAIN v.f}
      [] v.t = "arr" -> UNION {KeyedTexts(v.items[i]) : i \in 1..Len(v.items)}
      [] OTHER -> {}

\* no key of the body is a variable name, no value is a first-row cell
NoMatch ==
    /\ Parseable(p_body)
    /\ KeysOf(json_loads(p_body)) \cap ParamVars = {}
    /\ \A s \in KeyedTexts(json_loads(p_body)) : Hits(s) = {}

\* C5 (amended): with nothing to replace the call returns the body's value
\* unchanged, as the text json.dumps(indent=4) writes for it; the text equals
\* the input only when the input already has that layout or the guard of
\* line 1269 skipped the call.
C5_NoMatchKeepsValue ==
    (p_pc = "done" /\ NoMatch) =>
        /\ p_out # Raised
        /\ json_loads(p_out) = json_loads(p_body)
        /\ p_out = IF p_csv.variable_names = <<>> THEN p_body
                   ELSE json_dumps(json_loads(p_body))

\* C5 witness: nothing matched and the returned text is not the input text.
C5_Witness ==
    /\ ParamRan
    /\ NoMatch
    /\ p_out # p_body
    /\ json_loads(p_out) = json_loads(p_body)

\* C5 as stated: with nothing to replace the returned string equals the
\* input string.
C5_NoMatchReturnsInput ==
    (p_pc = "done" /\ NoMatch) => p_out = p_body

\* C6: a body json.loads rejects, or one that makes the walk raise, comes
\* back unmodified; no exception reaches the caller and the request of the
\* context is built with that body.
C6_UnparseableReturnedUnmodified ==
    (p_pc = "done" /\ ~Parseable(p_body)) =>
        /\ p_out = p_body
        /\ p_out # Raised
        /\ p_req.json_body = p_body
        /\ p_req.is_parameterized = (p_body.fmt # "empty")

\* C6 witness: the data set has variables, so the call reached json.loads,
\* which rejected the body; the request holds the body as it was.
C6_Witness ==
    /\ p_pc = "done"
    /\ p_body \in {InvalidBody, TooDeepBody}
    /\ p_csv.variable_names # <<>>
    /\ p_req.json_body = p_body

(***************************************************************************)
(* Auxiliary files.  An entry of files_data is a dict: ftype is the type of *)
(* its 'filename' value ("str", "int" for a number, "list" for an array,    *)
(* both of which the request model List[dict] lets through), content is     *)
(* "good" for text that parses, "bad" for text the parser of the file's     *)
(* type rejects, "empty" for no text.  An uploaded file has the same shape; *)
(* "closed" is one whose seek raises.                                       *)
(***************************************************************************)
FileEntry(fname, ftype, content) ==
    [filename |-> fname, ftype |-> ftype, content |-> content]

CsvNames == {"TG-B.csv", "data.csv"}
JsonNames == {"TG-B.json", "body.json"}
EndsWithCsv(name) == name \in CsvNames
EndsWithJson(name) == name \in JsonNames

NoResult == [none |-> TRUE]

\* d[k] = v on a dict
DictSet(d, k, v) == [x \in DOMAIN d \cup {k} |-> IF x = k THEN v ELSE d[x]]

\* _safe_process_single_csv (lines 996-1074)
safe_process_single_csv(file_info) ==
    IF file_info.content = "good"
    THEN [filepath |-> file_info.filename, raw_content |-> "good"]
    ELSE NoResult

\* _process_csv_files (lines 954-994): .lower() on a filename that is no
\* string raises AttributeError, which line 988 catches for that file.
RECURSIVE process_csv_files(_, _)
process_csv_files(files_data, csv_configs) ==
    IF files_data = <<>> THEN csv_configs
    ELSE LET file_info == Head(files_data)
             config == safe_process_single_csv(file_info)
         IN IF file_info.ftype # "str" \/ ~EndsWithCsv(file_info.filename)
               \/ config = NoResult
            THEN process_csv_files(Tail(files_data), csv_configs)
            ELSE process_csv_files(Tail(files_data),
                                   DictSet(csv_configs, file_info.filename, config))

\* _safe_process_single_json (lines 1119-1177): text json.loads rejects is
\* kept as raw_content with parsed = None.
safe_process_single_json(file_info) ==
    CASE file_info.content = "good" ->
            [error |-> FALSE, raw_content |-> "good", parsed |-> TRUE]
      [] file_info.content = "bad" ->
            [error |-> FALSE, raw_content |-> "bad", parsed |-> FALSE]
      [] OTHER -> NoResult

JsonErrorRecord == [error |-> TRUE, raw_content |-> "empty", parsed |-> FALSE]

\* _process_json_files (lines 1096-1117): the handler of line 1113 stores an
\* error record under the filename; a list is unhashable, so the store
\* raises TypeError inside the handler and the loop is left.
RECURSIVE process_json_files(_, _)
process_json_files(files_data, json_contents) ==
    IF files_data = <<>> THEN [raised |-> FALSE, json_contents |-> json_contents]
    ELSE LET file_info == Head(files_data)
             content == safe_process_single_json(file_info)
         IN CASE file_info.ftype = "int" ->
                    process_json_files(Tail(files_data),
                        DictSet(json_contents, file_info.filename, JsonErrorRecord))
              [] file_info.ftype = "list" ->
                    [raised |-> TRUE, json_contents |-> json_contents]
              [] ~EndsWithJson(file_info.filename) \/ content = NoResult ->
                    process_json_files(Tail(files_data), json_contents)
              [] OTHER ->
                    process_json_files(Tail(files_data),
                        DictSet(json_contents, file_info.filename, content))

EmptyFilesResult == [csv_configs |-> <<>>, json_contents |-> <<>>]

\* _safe_process_files (lines 567-605); csv_configs is held as the dict the
\* list is built from, one entry per filename.
safe_process_files(files_data) ==
    IF files_data = <<>> THEN EmptyFilesResult
    ELSE LET csv_configs_dict == process_csv_files(files_data, <<>>)
             json == process_json_files(files_data, <<>>)
         IN IF json.raised THEN EmptyFilesResult
            ELSE [csv_configs |-> csv_configs_dict,
                  json_contents |-> json.json_contents]

(***************************************************************************)
(* FileProcessorService.process_uploaded_files (file_processor.py 23-64).   *)
(***************************************************************************)
UploadRecord(fname, type, error) ==
    [filename |-> fname, type |-> type, error |-> error]

\* _process_csv_file (104-164) and _process_json_file (166-218): a decode or
\* parse failure is caught and returned as a record with an "error" entry.
process_csv_file(file) == UploadRecord(file.filename, "csv", file.content # "good")
process_json_file(file) == UploadRecord(file.filename, "json", file.content # "good")

\* _process_single_file (66-102)
process_single_file(file) ==
    CASE file.content = "empty" -> NoResult
      [] EndsWithCsv(file.filename) -> process_csv_file(file)
      [] EndsWithJson(file.filename) -> process_json_file(file)
      [] OTHER -> UploadRecord(file.filename, "unsupported", TRUE)

\* one pass of the loop body of lines 35-62
process_one_upload(processed_files, file) ==
    IF file.content = "closed"
    THEN Append(processed_files, UploadRecord(file.filename, "error", TRUE))
    ELSE LET result == process_single_file(file) IN
         IF result = NoResult THEN processed_files
         ELSE Append(processed_files, result)

RECURSIVE process_uploaded_files(_, _)
process_uploaded_files(files, processed_files) ==
    IF files = <<>> THEN processed_files
    ELSE process_uploaded_files(Tail(files),
                                process_one_upload(processed_files, Head(files)))

(***************************************************************************)
(* File processing on its own: a list of files is chosen and handed either  *)
(* to _safe_process_files or to process_uploaded_files.                     *)
(***************************************************************************)
SeqsUpTo(S, n) == UNION {[1..k -> S] : k \in 0..n}

FileEntries ==
    {FileEntry(n, "str", c) : n \in CsvNames \cup JsonNames,
                              c \in {"good", "bad", "empty"}}
    \cup {FileEntry("123", "int", "good"), FileEntry("['body.json']", "list", "good")}

UploadEntries ==
    {FileEntry(n, "str", c) : n \in {"data.csv", "TG-B.json", "body.json", "c.bin"},
                              c \in {"good", "bad", "empty", "closed"}}

FilesInit ==
    /\ f_mode \in {"jmx", "upload"}
    /\ f_files \in SeqsUpTo(IF f_mode = "jmx" THEN FileEntries ELSE UploadEntries,
                            MaxFiles)
    /\ f_csv = None
    /\ f_json = None
    /\ f_result = None
    /\ f_records = <<>>
    /\ f_i = 1
    /\ f_pc = "start"
    /\ FileOthersIdle

\* lines 570-572
JmxNoFiles ==
    /\ f_mode = "jmx" /\ f_pc = "start"
    /\ f_files = <<>>
    /\ f_result' = EmptyFilesResult
    /\ f_pc' = "done"
    /\ UNCHANGED <<f_mode, f_files, f_csv, f_json, f_records, f_i>>
    /\ UNCHANGED fileOthers

\* line 577
JmxProcessCsv ==
    /\ f_mode = "jmx" /\ f_pc = "start"
    /\ f_files # <<>>
    /\ f_csv' = process_csv_files(f_files, <<>>)
    /\ f_pc' = "json"
    /\ UNCHANGED <<f_mode, f_files, f_json, f_result, f_records, f_i>>
    /\ UNCHANGED fileOthers

\* line 578
JmxProcessJson ==
    /\ f_pc = "json"
    /\ f_json' = process_json_files(f_files, <<>>)
    /\ f_pc' = "build"
    /\ UNCHANGED <<f_mode, f_files, f_csv, f_result, f_records, f_i>>
    /\ UNCHANGED fileOthers

\* lines 580-601
JmxBuildResult ==
    /\ f_pc = "build"
    /\ ~f_json.raised
    /\ f_result' = [csv_configs |-> f_csv, json_contents |-> f_json.json_contents]
    /\ f_pc' = "done"
    /\ UNCHANGED <<f_mode, f_files, f_csv, f_json, f_records, f_i>>
    /\ UNCHANGED fileOthers

\* lines 603-605
JmxCatchAll ==
    /\ f_pc = "build"
    /\ f_json.raised
    /\ f_result' = EmptyFilesResult
    /\ f_pc' = "done"
    /\ UNCHANGED <<f_mode, f_files, f_csv, f_json, f_records, f_i>>
    /\ UNCHANGED fileOthers

\* file_processor.py lines 35-62, one file
UploadProcessFile ==
    /\ f_mode = "upload" /\ f_pc = "start"
    /\ f_i <= Len(f_files)
    /\ f_records' = process_one_upload(f_records, f_files[f_i])
    /\ f_i' = f_i + 1
    /\ UNCHANGED <<f_mode, f_files, f_csv, f_json, f_result, f_pc>>
    /\ UNCHANGED fileOthers

\* file_processor.py line 64
UploadReturn ==
    /\ f_mode = "upload" /\ f_pc = "start"
    /\ f_i > Len(f_files)
    /\ f_pc' = "done"
    /\ UNCHANGED <<f_mode, f_files, f_csv, f_json, f_result, f_records, f_i>>
    /\ UNCHANGED fileOthers

FilesNext ==
    \/ JmxNoFiles
    \/ JmxProcessCsv
    \/ JmxProcessJson
    \/ JmxBuildResult
    \/ JmxCatchAll
    \/ UploadProcessFile
    \/ UploadReturn

SpecFiles == FilesInit /\ [][FilesNext]_vars

(***************************************************************************)
(* Properties of the file processing.                                      *)
(***************************************************************************)
Remove(sq, i) == SubSeq(sq, 1, i - 1) \o SubSeq(sq, i + 1, Len(sq))

\* the parser of the file's type rejects its text
ParseFails(file) ==
    /\ file.ftype = "str"
    /\ file.content = "bad"
    /\ EndsWithCsv(file.filename) \/ EndsWithJson(file.filename)

Without(d, name) == [x \in DOMAIN d \ {name} |-> d[x]]

\* what a result of _safe_process_files holds for the files not called name
OtherFiles(result, name) ==
    [csv_configs |-> Without(result.csv_configs, name),
     json_contents |-> Without(result.json_contents, name)]

ErrorTaggedJmx(result, name) ==
    /\ name \in DOMAIN result.json_contents
    /\ result.json_contents[name].error

RECURSIVE OtherRecords(_, _)
OtherRecords(records, name) ==
    IF records = <<>> THEN <<>>
    ELSE IF Head(records).filename = name THEN OtherRecords(Tail(records), name)
    ELSE <<Head(records)>> \o OtherRecords(Tail(records), name)

ErrorTaggedUpload(records, name) ==
    \E j \in 1..Len(records) : records[j].filename = name /\ records[j].error

\* C7: a file whose text cannot be parsed yields an error-tagged record for
\* its filename, and what is reported for the other files is what is
\* reported when that file is not in the list.
C7_FailureIsolated ==
    f_pc = "done" =>
        \A i \in 1..Len(f_files) :
            LET file == f_files[i] IN
            ParseFails(file) =>
                IF f_mode = "jmx"
                THEN /\ ErrorTaggedJmx(f_result, file.filename)
                     /\ OtherFiles(f_result, file.filename)
                          = OtherFiles(safe_process_files(Remove(f_files, i)),
                                       file.filename)
                ELSE /\ ErrorTaggedUpload(f_records, file.filename)
                     /\ OtherRecords(f_records, file.filename)
                          = OtherRecords(process_uploaded_files(Remove(f_files, i), <<>>),
                                         file.filename)

(***************************************************************************)
(* The text of a file, by the kind of its content: the body a JSON file     *)
(* holds and the rows of a CSV file.                                        *)
(***************************************************************************)
GoodBody == BodyText("compact", Obj2("id", JStr("X"), "status", JStr("Y")))

BodyOf(raw_content) ==
    CASE raw_content = "good" -> GoodBody
      [] raw_content = "bad" -> InvalidBody
      [] OTHER -> EmptyBody

GoodCsvRows == <<(<<"id", "code">>), (<<"X", "Y">>)>>

(***************************************************************************)
(* _analyze_requirements_dynamically (lines 607-659).  The requirements     *)
(* text is held as what the regular expressions extract from it: the plan   *)
(* name and the sets of names, which lines 654-656 sort.                    *)
(***************************************************************************)
Requirements(plan, tgs, jsons, csvs) ==
    [test_plan_name |-> plan, thread_groups |-> tgs, http_requests |-> tgs,
     json_files |-> jsons, csv_files |-> csvs]

\* the names the model uses, in the order sorted() gives them
NameOrder == <<"TG-A", "TG-B", "TG-B.csv", "TG-B.json", "body.json", "data.csv">>

\* sorted(names)
RECURSIVE SortedFrom(_, _)
SortedFrom(names, i) ==
    IF i > Len(NameOrder) THEN <<>>
    ELSE IF NameOrder[i] \in names
         THEN <<NameOrder[i]>> \o SortedFrom(names, i + 1)
         ELSE SortedFrom(names, i + 1)

Sorted(names) == SortedFrom(names, 1)

\* tg_name in f
NameIn(tg_name, f) == f \in {tg_name \o ".json", tg_name \o ".csv"}

NoName == "<no file>"

\* the same search with the test "f not in used" left out
RECURSIVE NextOffered(_, _, _, _)
NextOffered(files, used, tg_name, by_name) ==
    IF files = <<>> THEN NoName
    ELSE IF ~by_name \/ NameIn(tg_name, Head(files))
         THEN Head(files)
         ELSE NextOffered(Tail(files), used, tg_name, by_name)

\* next((f for f in files if pred(f)), None), over the unused files
RECURSIVE NextUnused(_, _, _, _)
NextUnused(files, used, tg_name, by_name) ==
    IF files = <<>> THEN NoName
    ELSE IF Head(files) \notin used /\ (~by_name \/ NameIn(tg_name, Head(files)))
         THEN Head(files)
         ELSE NextUnused(Tail(files), used, tg_name, by_name)

\* lines 470-476: a file with the thread group's name in its own, else the
\* first file not bound yet
BindFile(files, used, tg_name) ==
    IF NextUnused(files, used, tg_name, TRUE) # NoName
    THEN NextUnused(files, used, tg_name, TRUE)
    ELSE NextUnused(files, used, tg_name, FALSE)

ThreadGroupContext(nm, reqs, csvs) ==
    [name |-> nm, http_requests |-> reqs, csv_configs |-> csvs]

\* lines 484-513 with the data set attached whenever it was processed,
\* whether or not a body was found to parameterize
BuildThreadGroupAttachAlways(tg_name, json_filename, csv_filename, processed_files) ==
    LET json_contents == processed_files.json_contents
        csv_configs == processed_files.csv_configs
        original_json_body ==
            IF json_filename # NoName /\ json_filename \in DOMAIN json_contents
            THEN BodyOf(json_contents[json_filename].raw_content)
            ELSE EmptyBody
        has_csv == csv_filename # NoName /\ csv_filename \in DOMAIN csv_configs
        csv_info_obj ==
            IF has_csv
            THEN CsvInfo(csv_filename, CleanHeaders(GoodCsvRows[1]),
                         Len(GoodCsvRows) - 1, GoodCsvRows)
            ELSE NoCsv
        http_req_info ==
            BuildRequest(tg_name,
                         IF json_filename = NoName THEN None ELSE json_filename,
                         original_json_body, csv_info_obj)
    IN ThreadGroupContext(tg_name, <<http_req_info>>,
                          IF has_csv THEN <<csv_info_obj>> ELSE <<>>)

\* lines 484-513 for one thread group
BuildThreadGroup(tg_name, json_filename, csv_filename, processed_files) ==
    LET json_contents == processed_files.json_contents
        csv_configs == processed_files.csv_configs
        original_json_body ==
            IF json_filename # NoName /\ json_filename \in DOMAIN json_contents
            THEN BodyOf(json_contents[json_filename].raw_content)
            ELSE EmptyBody
        has_csv == csv_filename # NoName /\ csv_filename \in DOMAIN csv_configs
        csv_info_obj ==
            IF has_csv
            THEN CsvInfo(csv_filename, CleanHeaders(GoodCsvRows[1]),
                         Len(GoodCsvRows) - 1, GoodCsvRows)
            ELSE NoCsv
        http_req_info ==
            BuildRequest(tg_name,
                         IF json_filename = NoName THEN None ELSE json_filename,
                         original_json_body, csv_info_obj)
    IN ThreadGroupContext(tg_name, <<http_req_info>>,
                          IF http_req_info.is_parameterized
                          THEN <<csv_info_obj>> ELSE <<>>)

\* the loop of lines 464-514
RECURSIVE BindLoop(_, _, _, _, _, _)
BindLoop(tgs, all_json_files, all_csv_files, used_json_files, used_csv_files, processed_files) ==
    IF tgs = <<>> THEN <<>>
    ELSE LET tg_name == Head(tgs)
             json_filename == BindFile(all_json_files, used_json_files, tg_name)
             csv_filename == BindFile(all_csv_files, used_csv_files, tg_name)
         IN <<BuildThreadGroup(tg_name, json_filename, csv_filename,
                               processed_files)>>
            \o BindLoop(Tail(tgs), all_json_files, all_csv_files,
                        used_json_files \cup ({json_filename} \ {NoName}),
                        used_csv_files \cup ({csv_filename} \ {NoName}),
                        processed_files)

ValueErrorRaised == [raised |-> "ValueError"]

GenerationContext(plan, tgs) == [test_plan_name |-> plan, thread_groups |-> tgs]

\* _prepare_generation_context without the test of lines 451-452
prepare_without_check(req_analysis, files_data) ==
    GenerationContext(
        req_analysis.test_plan_name,
        BindLoop(Sorted(req_analysis.thread_groups),
                 Sorted(req_analysis.json_files),
                 Sorted(req_analysis.csv_files),
                 {}, {}, safe_process_files(files_data)))

\* _prepare_generation_context (lines 442-521)
prepare_generation_context(req_analysis, files_data) ==
    IF req_analysis.thread_groups = {} THEN ValueErrorRaised
    ELSE GenerationContext(
            req_analysis.test_plan_name,
            BindLoop(Sorted(req_analysis.thread_groups),
                     Sorted(req_analysis.json_files),
                     Sorted(req_analysis.csv_files),
                     {}, {}, safe_process_files(files_data)))

(***************************************************************************)
(* Text placed into the document.  saxutils.escape replaces &, < and > and  *)
(* leaves the double quote; Content gives the tokens of a text placed       *)
(* between two tags as it is, AttrTag the opening tag whose testname        *)
(* attribute holds the text.                                                *)
(***************************************************************************)
saxutils_escape(text) ==
    CASE text = "a<b" -> "a&lt;b"
      [] text = "<HTTPSamplerProxy/>" -> "&lt;HTTPSamplerProxy/&gt;"
      [] text = "<hashTree>" -> "&lt;hashTree&gt;"
      [] text = "</hashTree>" -> "&lt;/hashTree&gt;"
      [] OTHER -> text

Content(text) ==
    CASE text = "" -> <<>>
      [] text = "<hashTree>" -> <<HtOpen>>
      [] text = "</hashTree>" -> <<HtClose>>
      [] text = "<HTTPSamplerProxy/>" -> <<Empty("HTTPSamplerProxy")>>
      [] text = "a<b" -> <<Bad>>
      [] OTHER -> <<Text(text)>>

AttrTag(tag, text) ==
    IF text \in {"a\"b", "a<b", "<hashTree>", "</hashTree>", "<HTTPSamplerProxy/>"} THEN Bad
    ELSE OpenA(tag, text)

StringProp(name, content) ==
    <<OpenA("stringProp", name)>> \o content \o <<Close("stringProp")>>

BoolProp(name, text) ==
    <<OpenA("boolProp", name), Text(text), Close("boolProp")>>

\* d.get(k, default) on a dict the LLM returned
Get(d, k, default) == IF k \in DOMAIN d THEN d[k] ELSE default

\* bool(p) of a parsed JSON value
Truthy(p) == p \notin {JStr(""), JNum(0), JNull, JBool(FALSE), JObj(<<>>), JArr(<<>>)}

(***************************************************************************)
(* hash(p) of a str: CPython salts it with a seed drawn when the process    *)
(* starts (PYTHONHASHSEED unset), so it is a function of seed and text.     *)
(***************************************************************************)
HashSeeds == {0, 1}

TextCode(text) ==
    CASE text = "200" -> 200
      [] text = "a<b" -> 301
      [] OTHER -> 117

PyHash(seed, text) == ToString(seed * 1000 + TextCode(text))

(***************************************************************************)
(* jmx_templates (lines 80-231): the table is read-only after __init__.     *)
(* The flag is the text of the same_user_on_next_iteration property in the  *)
(* thread_group template; the other templates are the operators below.      *)
(***************************************************************************)
load_jmx_templates == [thread_group |-> [same_user_on_next_iteration |-> "true"]]

\* lines 1487-1490: str.replace returns a new template, the flag false
modified_tg_template(templates) ==
    [templates.thread_group EXCEPT !.same_user_on_next_iteration = "false"]

AssembleRaised == [raised |-> TRUE, xml |-> <<>>]
Assembled(xml) == [raised |-> FALSE, xml |-> xml]

\* lines 1539-1544: one stringProp per truthy pattern, named by its hash
RECURSIVE assertion_patterns(_, _)
assertion_patterns(patterns_list, seed) ==
    IF patterns_list = <<>> THEN Assembled(<<>>)
    ELSE LET p == Head(patterns_list)
             rest == assertion_patterns(Tail(patterns_list), seed)
         IN IF ~Truthy(p) THEN rest
            ELSE IF p.t # "str" \/ rest.raised THEN AssembleRaised
            ELSE Assembled(<<OpenA("stringProp", PyHash(seed, p.s))>>
                           \o Content(saxutils_escape(p.s))
                           \o <<Close("stringProp")>> \o rest.xml)

\* _assemble_assertions (lines 1523-1557)
RECURSIVE assemble_assertions(_, _)
assemble_assertions(assertions_data, seed) ==
    IF assertions_data = <<>> THEN Assembled(<<>>)
    ELSE LET assertion_details == Head(assertions_data)
             rest == assemble_assertions(Tail(assertions_data), seed)
             patterns == assertion_patterns(Get(assertion_details, "patterns", <<>>),
                                            seed)
         IN IF Get(assertion_details, "name", "") = "" THEN rest
            ELSE IF patterns.raised \/ rest.raised THEN AssembleRaised
            ELSE IF patterns.xml = <<>> THEN rest
            ELSE Assembled(
                    <<AttrTag("ResponseAssertion",
                              saxutils_escape(assertion_details.name)),
                      OpenA("collectionProp", "Asserion.test_strings")>>
                    \o patterns.xml
                    \o <<Close("collectionProp")>>
                    \o StringProp("Assertion.test_field",
                                  <<Text("Assertion.response_data")>>)
                    \o <<OpenA("intProp", "Assertion.test_type")>>
                    \o Content(Get(assertion_details, "test_type", "2"))
                    \o <<Close("intProp")>>
                    \o <<Close("ResponseAssertion"), HtEmpty>>
                    \o rest.xml)

\* lines 1370-1381: the header manager, when a header has a name
RECURSIVE header_elements(_)
header_elements(global_headers_data) ==
    IF global_headers_data = <<>> THEN <<>>
    ELSE LET h == Head(global_headers_data) IN
         (IF Get(h, "name", "") = "" THEN <<>>
          ELSE <<OpenA("elementProp", "")>>
               \o StringProp("Header.name", Content(saxutils_escape(h.name)))
               \o StringProp("Header.value",
                             Content(saxutils_escape(Get(h, "value", ""))))
               \o <<Close("elementProp")>>)
         \o header_elements(Tail(global_headers_data))

header_manager(test_plan_data) ==
    LET headers == header_elements(Get(test_plan_data, "global_headers", <<>>)) IN
    IF headers = <<>> THEN <<>>
    ELSE <<OpenA("HeaderManager", "HTTP Header Manager"),
           OpenA("collectionProp", "HeaderManager.headers")>>
         \o headers
         \o <<Close("collectionProp"), Close("HeaderManager"), HtEmpty>>

\* lines 1385-1401: the values of the LLM go into the template as they are
http_defaults(test_plan_data) ==
    LET http_defaults_data == Get(test_plan_data, "http_defaults", <<>>) IN
    IF Get(http_defaults_data, "domain", "") = "" THEN <<>>
    ELSE <<OpenA("ConfigTestElement", "HTTP Request Defaults")>>
         \o StringProp("HTTPSampler.domain", Content(http_defaults_data.domain))
         \o StringProp("HTTPSampler.protocol",
                       Content(Get(http_defaults_data, "protocol", "https")))
         \o StringProp("HTTPSampler.port", Content(Get(http_defaults_data, "port", "")))
         \o StringProp("HTTPSampler.contentEncoding", <<Text("UTF-8")>>)
         \o StringProp("HTTPSampler.path", Content(Get(http_defaults_data, "path", "")))
         \o StringProp("HTTPSampler.connect_timeout",
                       <<Text("${__P(connTimeOut,5000)}")>>)
         \o StringProp("HTTPSampler.response_timeout",
                       <<Text("${__P(respTimeOut,5000)}")>>)
         \o <<Close("ConfigTestElement"), HtEmpty>>

\* lines 1404-1418
RECURSIVE random_variables(_)
random_variables(random_variables_data) ==
    IF random_variables_data = <<>> THEN <<>>
    ELSE LET rv_data == Head(random_variables_data) IN
         (IF Get(rv_data, "variable_name", "") = "" THEN <<>>
          ELSE <<AttrTag("RandomVariableConfig",
                         saxutils_escape(Get(rv_data, "name", "Random Variable")))>>
               \o StringProp("maximumValue",
                             Content(Get(rv_data, "max_value", "99999999")))
               \o StringProp("minimumValue", Content(Get(rv_data, "min_value", "1")))
               \o StringProp("outputFormat", Content(Get(rv_data, "output_format", "")))
               \o BoolProp("perThread", "false")
               \o StringProp("variableName",
                             Content(saxutils_escape(rv_data.variable_name)))
               \o <<Close("RandomVariableConfig"), HtEmpty>>)
         \o random_variables(Tail(random_variables_data))

\* {x.get("name"): x for x in items if x.get("name")}.get(name, {})
RECURSIVE ByName(_, _)
ByName(items, name) ==
    IF items = <<>> THEN <<>>
    ELSE IF Get(items[Len(items)], "name", "") = name THEN items[Len(items)]
    ELSE ByName(SubSeq(items, 1, Len(items) - 1), name)

\* ",".join(names)
RECURSIVE Join(_)
Join(names) ==
    IF names = <<>> THEN ""
    ELSE IF Len(names) = 1 THEN names[1]
    ELSE names[1] \o "," \o Join(Tail(names))

\* lines 1436-1443 with ignore_first_line left at the "false" of a data set
\* that has no header line
csv_data_set_not_forced(csv_info) ==
    <<OpenA("CSVDataSet", "CSV Data Set Config")>>
    \o StringProp("delimiter", <<Text(",")>>)
    \o StringProp("filename", Content("..\\TestData\\" \o csv_info.filename))
    \o BoolProp("ignoreFirstLine", "false")
    \o BoolProp("quotedData", "false")
    \o BoolProp("recycle", "true")
    \o StringProp("shareMode", <<Text("shareMode.all")>>)
    \o BoolProp("stopThread", "false")
    \o StringProp("variableNames", Content(Join(csv_info.variable_names)))
    \o <<Close("CSVDataSet"), HtEmpty>>

\* lines 1436-1443: path, variable names and ignoreFirstLine come from the
\* context, never from the LLM
csv_data_set(csv_info) ==
    <<OpenA("CSVDataSet", "CSV Data Set Config")>>
    \o StringProp("delimiter", <<Text(",")>>)
    \o StringProp("filename", Content("..\\TestData\\" \o csv_info.filename))
    \o BoolProp("ignoreFirstLine", "true")
    \o BoolProp("quotedData", "false")
    \o BoolProp("recycle", "true")
    \o StringProp("shareMode", <<Text("shareMode.all")>>)
    \o BoolProp("stopThread", "false")
    \o StringProp("variableNames", Content(Join(csv_info.variable_names)))
    \o <<Close("CSVDataSet"), HtEmpty>>

\* lines 1434-1446
RECURSIVE csv_data_sets(_)
csv_data_sets(csv_configs) ==
    IF csv_configs = <<>> THEN <<>>
    ELSE csv_data_set(Head(csv_configs)) \o csv_data_sets(Tail(csv_configs))

\* the body string as character data, after saxutils.escape
BodyData(json_body) ==
    IF json_body.fmt = "empty" THEN Text("{}")
    ELSE [k |-> "text", tag |-> "", v |-> json_body]

\* lines 1452-1483: a request the LLM gave no data for is skipped
RECURSIVE http_samplers(_, _, _)
http_samplers(http_requests, tg_data_from_llm, seed) ==
    IF http_requests = <<>> THEN Assembled(<<>>)
    ELSE LET http_req_info == Head(http_requests)
             req_data_from_llm ==
                 ByName(Get(tg_data_from_llm, "http_requests", <<>>),
                        http_req_info.name)
             rest == http_samplers(Tail(http_requests), tg_data_from_llm, seed)
             assertions_xml ==
                 assemble_assertions(Get(req_data_from_llm, "assertions", <<>>), seed)
         IN IF DOMAIN req_data_from_llm = {} THEN rest
            ELSE IF assertions_xml.raised \/ rest.raised THEN AssembleRaised
            ELSE Assembled(
                    <<AttrTag("HTTPSamplerProxy", saxutils_escape(http_req_info.name))>>
                    \o StringProp("Argument.value", <<BodyData(http_req_info.json_body)>>)
                    \o StringProp("HTTPSampler.path",
                          Content(saxutils_escape(Get(req_data_from_llm, "path", "/rest"))))
                    \o StringProp("HTTPSampler.method",
                          Content(Get(req_data_from_llm, "method", "POST")))
                    \o <<Close("HTTPSamplerProxy")>>
                    \o (IF assertions_xml.xml = <<>> THEN <<HtEmpty>>
                        ELSE <<HtOpen>> \o assertions_xml.xml \o <<HtClose>>)
                    \o rest.xml)

\* str(value).lower() of a flag the LLM returned as text
Lower(text) ==
    CASE text = "True" -> "true"
      [] text = "False" -> "false"
      [] OTHER -> text

\* lines 1423-1503: one thread group of the context and its hashTree
thread_group(tg_context, test_plan_data, templates, seed) ==
    LET tg_data_from_llm ==
            ByName(Get(test_plan_data, "thread_groups", <<>>), tg_context.name)
        samplers == http_samplers(tg_context.http_requests, tg_data_from_llm, seed)
        template == modified_tg_template(templates)
    IN IF samplers.raised THEN AssembleRaised
       ELSE Assembled(
            <<AttrTag("ThreadGroup", saxutils_escape(tg_context.name))>>
            \o StringProp("ThreadGroup.on_sample_error",
                          Content(Get(tg_data_from_llm, "on_sample_error", "continue")))
            \o StringProp("LoopController.loops",
                          Content(Get(tg_data_from_llm, "loops", "${__P(loop,-1)}")))
            \o StringProp("ThreadGroup.num_threads",
                          Content(Get(tg_data_from_llm, "num_threads", "${__P(threads,3)}")))
            \o StringProp("ThreadGroup.ramp_time",
                          Content(Get(tg_data_from_llm, "ramp_time", "${__P(rampUp,1)}")))
            \o <<OpenA("boolProp", "ThreadGroup.scheduler")>>
            \o Content(Lower(Get(tg_data_from_llm, "scheduler", "true")))
            \o <<Close("boolProp")>>
            \o StringProp("ThreadGroup.duration",
                          Content(Get(tg_data_from_llm, "duration", "${__P(duration,10)}")))
            \o BoolProp("ThreadGroup.same_user_on_next_iteration",
                        template.same_user_on_next_iteration)
            \o <<Close("ThreadGroup"), HtOpen>>
            \o csv_data_sets(tg_context.csv_configs)
            \o samplers.xml
            \o <<HtClose>>)

RECURSIVE thread_groups(_, _, _, _)
thread_groups(tg_contexts, test_plan_data, templates, seed) ==
    IF tg_contexts = <<>> THEN Assembled(<<>>)
    ELSE LET first == thread_group(Head(tg_contexts), test_plan_data, templates, seed)
             rest == thread_groups(Tail(tg_contexts), test_plan_data, templates, seed)
         IN IF first.raised \/ rest.raised THEN AssembleRaised
            ELSE Assembled(first.xml \o rest.xml)

\* lines 1506-1508
result_collector ==
    <<OpenA("ResultCollector", "View Results Tree")>>
    \o BoolProp("ResultCollector.error_logging", "false")
    \o StringProp("filename", <<>>)
    \o <<Close("ResultCollector"), HtEmpty>>

\* lines 1512-1521 with the test_plan_structure template (lines 87-102)
test_plan_structure(test_name, tear_down_on_shutdown, content) ==
    <<Decl, Ws, RootOpen, HtOpen, AttrTag("TestPlan", test_name)>>
    \o StringProp("TestPlan.comments",
                  <<Text("Generated by a universal JMXGeneratorService.")>>)
    \o <<OpenA("boolProp", "TestPlan.tearDown_on_shutdown")>>
    \o Content(tear_down_on_shutdown)
    \o <<Close("boolProp"), Close("TestPlan"), HtOpen>>
    \o content
    \o <<HtClose, HtClose, RootClose>>

\* _assemble_jmx_from_structured_data (lines 1358-1521)
assemble_jmx_from_structured_data(test_plan_data, context, templates, seed) ==
    LET groups == thread_groups(context.thread_groups, test_plan_data, templates, seed)
    IN IF groups.raised THEN AssembleRaised
       ELSE Assembled(
            test_plan_structure(
                saxutils_escape(context.test_plan_name),
                Lower(Get(test_plan_data, "tear_down_on_shutdown", "true")),
                header_manager(test_plan_data)
                \o http_defaults(test_plan_data)
                \o random_variables(Get(test_plan_data, "random_variables", <<>>))
                \o groups.xml
                \o result_collector))

(***************************************************************************)
(* The responses of the LLM and _parse_llm_content_response (lines 413-440).*)
(***************************************************************************)
LlmRaises == [kind |-> "llm_error", data |-> <<>>]
NoJsonResponse == [kind |-> "no_json", data |-> <<>>]
BadJsonResponse == [kind |-> "bad_json", data |-> <<>>]
JsonResponse(test_plan_data) == [kind |-> "json", data |-> test_plan_data]

\* the JSON object of the response; ValueError when the text has no braces,
\* JSONDecodeError when json.loads rejects what is between them
parse_llm_content_response(response) ==
    CASE response.kind = "no_json" -> [raised |-> "ValueError", data |-> <<>>]
      [] response.kind = "bad_json" -> [raised |-> "JSONDecodeError", data |-> <<>>]
      [] OTHER -> [raised |-> "none", data |-> response.data]

(***************************************************************************)
(* generate_jmx_with_retry (lines 244-282).                                 *)
(***************************************************************************)
max_retries == 3

\* range(max_retries) has a next value
MoreAttemptsOneMore(attempt) == attempt < max_retries + 1
\* the loop written as "while True": there is always a next attempt
MoreAttemptsForever(attempt) == TRUE
MoreAttempts(attempt) == attempt < max_retries

\* line 266, negated: the attempt's document may be returned
GateAlwaysOpen(is_valid) == TRUE
Gate(is_valid) == is_valid

\* where an invocation keeps its context: one attribute of the instance
SharedSlot(r, proc) == <<"self", proc>>
\* where an invocation keeps its context: the local variable of line 249
ContextSlot(r, proc) == <<"local", r>>

\* line 369: the prompt builder parses every request body that is not blank
PromptRaises(context) ==
    \E i \in 1..Len(context.thread_groups) :
        \E j \in 1..Len(context.thread_groups[i].http_requests) :
            context.thread_groups[i].http_requests[j].json_body.fmt = "invalid"

NoCall == [kind |-> "no_call", data |-> <<>>]

AttemptEnds(ends, doc, message) == [ends |-> ends, doc |-> doc, message |-> message]

\* lines 264-272: the validator's verdict on the assembled document
Validated(jmx_content, checked) ==
    IF Gate(checked[1])
    THEN AttemptEnds("return", jmx_content, checked[2])
    ELSE AttemptEnds("invalid", jmx_content, checked[2])

\* lines 263-264: the assembler raised, or its document goes to the validator
AssembledThen(assembled) ==
    IF assembled.raised
    THEN AttemptEnds("Exception", <<>>, "")
    ELSE Validated(assembled.xml, validate_xml(assembled.xml))

\* line 263 onwards: the response parsed, or the attempt ends with its error
ParsedThen(parsed, context, templates, seed) ==
    IF parsed.raised # "none"
    THEN AttemptEnds(parsed.raised, <<>>, "")
    ELSE AssembledThen(assemble_jmx_from_structured_data(parsed.data, context,
                                                         templates, seed))

\* One pass of the loop body (lines 259-279) on a response: how it ends,
\* the document it assembled and the validator's message.
Attempt(context, response, templates, seed) ==
    CASE PromptRaises(context) -> AttemptEnds("JSONDecodeError", <<>>, "")
      [] response.kind = "llm_error" -> AttemptEnds("Exception", <<>>, "")
      [] OTHER -> ParsedThen(parse_llm_content_response(response), context,
                             templates, seed)

NoOut == [kind |-> "none", doc |-> <<>>, error |-> ""]
Returned(jmx_content) == [kind |-> "returned", doc |-> jmx_content, error |-> ""]
RaisedOut(error) == [kind |-> "raised", doc |-> <<>>, error |-> error]

NoContext == [test_plan_name |-> None, thread_groups |-> <<>>]

\* no attempt has gone through lines 262-266 yet
NoAttempt == AttemptEnds("none", <<>>, "")

StartLocals ==
    [pc |-> "prepare", attempt |-> 0, started |-> 0, validation_errors |-> <<>>,
     response |-> NoCall, outcome |-> NoAttempt, hist |-> <<>>,
     jmx_content |-> <<>>, out |-> NoOut]

(***************************************************************************)
(* The requests and the responses the model draws from.                     *)
(***************************************************************************)
GenInput(requirements, files_data) ==
    [requirements |-> requirements, files_data |-> files_data]

\* one thread group, a body and a data set to parameterize it with
InputParameterized ==
    GenInput(Requirements("Plan", {"TG-A"}, {"body.json"}, {"data.csv"}),
             <<FileEntry("body.json", "str", "good"),
               FileEntry("data.csv", "str", "good")>>)

\* one thread group and no file
InputNoFiles == GenInput(Requirements("Plan", {"TG-A"}, {}, {}), <<>>)

\* a plan name with a double quote in it
InputQuotedName == GenInput(Requirements("a\"b", {"TG-A"}, {}, {}), <<>>)

\* no thread group name in the requirements
InputNoThreadGroup == GenInput(Requirements("Plan", {}, {}, {}), <<>>)

\* two thread groups; the second one's body is not JSON
InputBadBody ==
    GenInput(Requirements("Plan", {"TG-A", "TG-B"}, {"TG-B.json", "body.json"},
                          {"data.csv"}),
             <<FileEntry("TG-B.json", "str", "good"),
               FileEntry("body.json", "str", "bad"),
               FileEntry("data.csv", "str", "good")>>)

GenInputs ==
    {InputParameterized, InputNoFiles, InputQuotedName, InputNoThreadGroup,
     InputBadBody}

LlmRequest(method, assertions) ==
    [name |-> "TG-A", path |-> "/rest", method |-> method, assertions |-> assertions]

LlmThreadGroup(on_sample_error, requests) ==
    [name |-> "TG-A", on_sample_error |-> on_sample_error, http_requests |-> requests]

LlmAssertion(patterns) == [name |-> "Response Assertion", patterns |-> patterns]

PlanData(method, patterns) ==
    [thread_groups |->
        <<LlmThreadGroup("continue", <<LlmRequest(method, <<LlmAssertion(patterns)>>)>>)>>]

\* a plan as the prompt asks for it, with headers, defaults and a variable
FullPlanData ==
    [tear_down_on_shutdown |-> "True",
     global_headers |-> <<[name |-> "Content-Type", value |-> "a<b"]>>,
     http_defaults |-> [domain |-> "host", protocol |-> "https", path |-> "/rest"],
     random_variables |-> <<[name |-> "TXNSEQ", variable_name |-> "TXNSEQ"]>>,
     thread_groups |->
        <<LlmThreadGroup("continue",
            <<LlmRequest("POST", <<LlmAssertion(<<JStr("200"), JStr("a<b")>>)>>)>>)>>]

ResponseValid == JsonResponse(PlanData("POST", <<JStr("200")>>))
ResponseUnbalanced == JsonResponse(PlanData("<hashTree>", <<JStr("200")>>))
ResponseMalformed == JsonResponse(PlanData("a<b", <<>>))
ResponseNumberPattern == JsonResponse(PlanData("POST", <<JNum(200)>>))
ResponseEmptyPlan == JsonResponse(<<>>)
ResponseFullPlan == JsonResponse(FullPlanData)

Responses ==
    {LlmRaises, NoJsonResponse, BadJsonResponse, ResponseValid, ResponseUnbalanced,
     ResponseMalformed, ResponseNumberPattern, ResponseEmptyPlan, ResponseFullPlan}

\* the responses drawn from when two invocations run side by side
PairResponses(r) ==
    IF r = "r1" THEN {ResponseValid, ResponseUnbalanced, BadJsonResponse}
    ELSE {ResponseValid, LlmRaises}
PairInputs == {InputParameterized, InputNoFiles, InputNoThreadGroup, InputBadBody}

Procs == {"p1", "p2"}

RangeOf(f) == {f[x] : x \in DOMAIN f}

\* One invocation in one process.
GenInit ==
    /\ g_in \in [{"r1"} -> GenInputs]
    /\ g_proc = [r \in {"r1"} |-> "p1"]
    /\ g_seed \in [{"p1"} -> HashSeeds]
    /\ g_templates = [p \in {"p1"} |-> load_jmx_templates]
    /\ g_llm_service = [p \in {"p1"} |-> "injected"]
    /\ g_ctx = [sl \in {ContextSlot("r1", "p1")} |-> NoContext]
    /\ g_local = [r \in {"r1"} |-> StartLocals]
    /\ GenOthersIdle

\* Two invocations, in one process or in two.
PairInit ==
    /\ g_in \in [{"r1", "r2"} -> PairInputs]
    /\ g_proc \in {pr \in [{"r1", "r2"} -> Procs] : pr["r1"] = "p1"}
    /\ g_seed \in [RangeOf(g_proc) -> HashSeeds]
    /\ g_templates = [p \in RangeOf(g_proc) |-> load_jmx_templates]
    /\ g_llm_service = [p \in RangeOf(g_proc) |-> "injected"]
    /\ g_ctx = [sl \in {ContextSlot(r, g_proc[r]) : r \in {"r1", "r2"}} |-> NoContext]
    /\ g_local = [r \in {"r1", "r2"} |-> StartLocals]
    /\ GenOthersIdle

Slot(r) == ContextSlot(r, g_proc[r])
Ctx(r) == g_ctx[Slot(r)]
ResponsesFor(r) == IF DOMAIN g_local = {"r1"} THEN Responses ELSE PairResponses(r)

\* the llm_service property (lines 67-78): created on first use when the
\* constructor was given none
llm_service_property(handle) == IF handle = None THEN "created" ELSE handle

ErrorEntry(kind, message) == [kind |-> kind, message |-> message]

\* lines 248-255, the context was built
GenPrepare(r) ==
    /\ g_local[r].pc = "prepare"
    /\ \E context \in {prepare_generation_context(g_in[r].requirements,
                                                  g_in[r].files_data)} :
        /\ context # ValueErrorRaised
        /\ g_ctx' = [g_ctx EXCEPT ![Slot(r)] = context]
    /\ g_local' = [g_local EXCEPT ![r].pc = "loop"]
    /\ UNCHANGED <<g_in, g_proc, g_seed, g_templates, g_llm_service>>
    /\ UNCHANGED genOthers

\* lines 253-255, the ValueError is raised again
GenPrepareFails(r) ==
    /\ g_local[r].pc = "prepare"
    /\ \E context \in {prepare_generation_context(g_in[r].requirements,
                                                  g_in[r].files_data)} :
        context = ValueErrorRaised
    /\ g_local' = [g_local EXCEPT ![r].pc = "done",
                                  ![r].out = RaisedOut("ValueError")]
    /\ UNCHANGED <<g_in, g_proc, g_seed, g_templates, g_llm_service, g_ctx>>
    /\ UNCHANGED genOthers

\* lines 258-261 and 274-276: building the prompt raises JSONDecodeError
GenPromptFails(r) ==
    /\ g_local[r].pc = "loop"
    /\ MoreAttempts(g_local[r].attempt)
    /\ PromptRaises(Ctx(r))
    /\ g_local' = [g_local EXCEPT
            ![r].started = @ + 1,
            ![r].attempt = @ + 1,
            ![r].hist = Append(@, NoCall),
            ![r].validation_errors = Append(@, ErrorEntry("JSONDecodeError", ""))]
    /\ UNCHANGED <<g_in, g_proc, g_seed, g_templates, g_llm_service, g_ctx>>
    /\ UNCHANGED genOthers

\* lines 262-266 on one response: it is parsed, assembled and validated with
\* the context and the templates as they are when the LLM call returns
Responded(r, response) ==
    g_local' = [g_local EXCEPT
        ![r].started = @ + 1,
        ![r].response = response,
        ![r].outcome = Attempt(Ctx(r), response, g_templates[g_proc[r]],
                               g_seed[g_proc[r]]),
        ![r].hist = Append(@, response),
        ![r].pc = "respond"]

\* lines 258-262: the prompt is built and the LLM is called; the call
\* raises, or it returns a text
GenCallLLM(r) ==
    /\ g_local[r].pc = "loop"
    /\ MoreAttempts(g_local[r].attempt)
    /\ ~PromptRaises(Ctx(r))
    /\ \/ \E response \in ResponsesFor(r) \cap {LlmRaises} : Responded(r, response)
       \/ \E response \in ResponsesFor(r) \ {LlmRaises} : Responded(r, response)
    /\ g_llm_service' = [g_llm_service EXCEPT
            ![g_proc[r]] = llm_service_property(@)]
    /\ UNCHANGED <<g_in, g_proc, g_seed, g_templates, g_ctx>>
    /\ UNCHANGED genOthers

\* how the attempt of run r ended
ThisAttempt(r) == g_local[r].outcome

\* lines 274-276: no JSON in the response, or JSON that does not parse
GenParseFails(r) ==
    /\ g_local[r].pc = "respond"
    /\ \E a \in {ThisAttempt(r)} :
        /\ a.ends \in {"ValueError", "JSONDecodeError"}
        /\ g_local' = [g_local EXCEPT
                ![r].attempt = @ + 1,
                ![r].pc = "loop",
                ![r].validation_errors = Append(@, ErrorEntry(a.ends, ""))]
    /\ UNCHANGED <<g_in, g_proc, g_seed, g_templates, g_llm_service, g_ctx>>
    /\ UNCHANGED genOthers

\* lines 277-279: the LLM call or the assembler raised
GenAttemptRaises(r) ==
    /\ g_local[r].pc = "respond"
    /\ \E a \in {ThisAttempt(r)} : a.ends = "Exception"
    /\ g_local' = [g_local EXCEPT
            ![r].attempt = @ + 1,
            ![r].pc = "loop",
            ![r].validation_errors = Append(@, ErrorEntry("Exception", ""))]
    /\ UNCHANGED <<g_in, g_proc, g_seed, g_templates, g_llm_service, g_ctx>>
    /\ UNCHANGED genOthers

\* lines 264-269: the assembled document fails validation
GenInvalid(r) ==
    /\ g_local[r].pc = "respond"
    /\ \E a \in {ThisAttempt(r)} :
        /\ a.ends = "invalid"
        /\ g_local' = [g_local EXCEPT
                ![r].attempt = @ + 1,
                ![r].pc = "loop",
                ![r].jmx_content = a.doc,
                ![r].validation_errors = Append(@, ErrorEntry("invalid", a.message))]
    /\ UNCHANGED <<g_in, g_proc, g_seed, g_templates, g_llm_service, g_ctx>>
    /\ UNCHANGED genOthers

\* lines 264-272: the assembled document passes and is returned
GenReturn(r) ==
    /\ g_local[r].pc = "respond"
    /\ \E a \in {ThisAttempt(r)} :
        /\ a.ends = "return"
        /\ g_local' = [g_local EXCEPT
                ![r].pc = "done",
                ![r].jmx_content = a.doc,
                ![r].out = Returned(a.doc)]
    /\ UNCHANGED <<g_in, g_proc, g_seed, g_templates, g_llm_service, g_ctx>>
    /\ UNCHANGED genOthers

\* lines 281-282: the loop ran out
GenExhausted(r) ==
    /\ g_local[r].pc = "loop"
    /\ ~MoreAttempts(g_local[r].attempt)
    /\ g_local' = [g_local EXCEPT ![r].pc = "done",
                                  ![r].out = RaisedOut("Exception")]
    /\ UNCHANGED <<g_in, g_proc, g_seed, g_templates, g_llm_service, g_ctx>>
    /\ UNCHANGED genOthers

GenNext ==
    \/ \E r \in DOMAIN g_local : GenPrepare(r)
    \/ \E r \in DOMAIN g_local : GenPrepareFails(r)
    \/ \E r \in DOMAIN g_local : GenPromptFails(r)
    \/ \E r \in DOMAIN g_local : GenCallLLM(r)
    \/ \E r \in DOMAIN g_local : GenParseFails(r)
    \/ \E r \in DOMAIN g_local : GenAttemptRaises(r)
    \/ \E r \in DOMAIN g_local : GenInvalid(r)
    \/ \E r \in DOMAIN g_local : GenReturn(r)
    \/ \E r \in DOMAIN g_local : GenExhausted(r)

SpecGen == GenInit /\ [][GenNext]_vars
SpecPair == PairInit /\ [][GenNext]_vars

(***************************************************************************)
(* Properties of generate_jmx_with_retry.                                   *)
(***************************************************************************)
Runs == DOMAIN g_local
Kinds(errors) == {errors[i].kind : i \in 1..Len(errors)}

\* C1: a document is returned only if validate_xml accepted that very
\* document in the attempt that returned it; a document that does not end
\* with the root closing tag is never returned.
C1_ReturnedOnlyIfValidated ==
    \A r \in Runs :
        g_local[r].out.kind = "returned" =>
            /\ g_local[r].out.doc = g_local[r].jmx_content
            /\ g_local[r].out.doc =
                   Attempt(Ctx(r), g_local[r].response, g_templates[g_proc[r]],
                           g_seed[g_proc[r]]).doc
            /\ validate_xml(g_local[r].out.doc) = <<TRUE, MsgValid>>
            /\ FailingChecks(g_local[r].out.doc) = {}
            /\ EndsWithRootClose(g_local[r].out.doc)

\* a document was rejected by the validator and a later attempt returned
C1_Witness ==
    \E r \in Runs :
        /\ g_local[r].out.kind = "returned"
        /\ "invalid" \in Kinds(g_local[r].validation_errors)
        /\ g_local[r].started > 1

\* The result of an invocation that runs alone on the responses hist.
RECURSIVE SoloLoop(_, _, _, _)
SoloLoop(context, seed, hist, i) ==
    IF i > Len(hist) THEN RaisedOut("Exception")
    ELSE IF Attempt(context, hist[i], load_jmx_templates, seed).ends = "return"
         THEN Returned(Attempt(context, hist[i], load_jmx_templates, seed).doc)
         ELSE SoloLoop(context, seed, hist, i + 1)

SoloRun(input, seed, hist) ==
    IF prepare_generation_context(input.requirements, input.files_data)
           = ValueErrorRaised
    THEN RaisedOut("ValueError")
    ELSE SoloLoop(prepare_generation_context(input.requirements, input.files_data),
                  seed, hist, 1)

\* C8 as stated: two runs from equal inputs and equal responses end with
\* equal documents, the names written for assertion patterns included.
C8_EqualRunsEqualDocuments ==
    \A r1 \in Runs : \A r2 \in Runs :
        ( /\ g_local[r1].pc = "done"
          /\ g_local[r2].pc = "done"
          /\ g_in[r1] = g_in[r2]
          /\ g_local[r1].hist = g_local[r2].hist )
        => g_local[r1].out = g_local[r2].out

\* C9: under every interleaving of two invocations each one keeps its own
\* context, the template table and the LLM handle of the instance stay as
\* they were, and a finished invocation has the result of running alone.
C9_NoInterference ==
    /\ \A p \in DOMAIN g_templates : g_templates[p] = load_jmx_templates
    /\ \A p \in DOMAIN g_llm_service : g_llm_service[p] = "injected"
    /\ \A r \in Runs :
        /\ g_local[r].pc \in {"loop", "respond"} =>
               Ctx(r) = prepare_generation_context(g_in[r].requirements,
                                                   g_in[r].files_data)
        /\ g_local[r].pc = "done" =>
               g_local[r].out = SoloRun(g_in[r], g_seed[g_proc[r]], g_local[r].hist)

\* two invocations with different inputs on one instance: the first returned
\* after a rejected attempt while the second was in the middle of an attempt
C9_Witness ==
    /\ Runs = {"r1", "r2"}
    /\ g_proc["r1"] = g_proc["r2"]
    /\ g_in["r1"] = InputParameterized
    /\ g_in["r2"] = InputNoFiles
    /\ g_local["r1"].out.kind = "returned"
    /\ g_local["r1"].started = 2
    /\ g_local["r2"].pc = "respond"
    /\ g_local["r2"].started = 2

\* C10 as stated: the generate/assemble/validate sequence runs at most once
\* in a call, and a failed attempt ends the call.
C10_AtMostOneAttempt ==
    \A r \in Runs :
        /\ g_local[r].started <= 1
        /\ g_local[r].validation_errors # <<>> => g_local[r].pc = "done"

\* C10: a call starts at most max_retries attempts; every failed attempt is
\* recorded and followed by the next one; the call raises only when all
\* max_retries attempts failed (or when the context could not be built, before
\* any attempt), and it returns at the first attempt that passes.
C10_AtMostMaxRetriesAttempts ==
    \A r \in Runs :
        /\ g_local[r].started <= max_retries
        /\ Len(g_local[r].validation_errors) = g_local[r].attempt
        /\ g_local[r].out.kind = "returned" =>
               /\ g_local[r].started = g_local[r].attempt + 1
               /\ Len(g_local[r].validation_errors) = g_local[r].started - 1
        /\ g_local[r].out = RaisedOut("Exception") =>
               /\ g_local[r].started = max_retries
               /\ Len(g_local[r].validation_errors) = max_retries
        /\ g_local[r].out = RaisedOut("ValueError") => g_local[r].started = 0
        /\ (g_local[r].pc = "loop" /\ g_local[r].attempt < max_retries) =>
               ENABLED (GenCallLLM(r) \/ GenPromptFails(r))

\* a call that returned at its last attempt, after a failed assembly and a
\* failed validation
C10_Witness ==
    \E r \in Runs :
        /\ g_local[r].out.kind = "returned"
        /\ g_local[r].started = max_retries
        /\ {"invalid", "Exception"} \subseteq Kinds(g_local[r].validation_errors)

\* C11: when no thread group can be derived from the input the call raises
\* before any attempt starts and returns no document; every finished call has
\* either a validated document or an error, never both, and never a document
\* that the validator did not accept.
C11_FatalShortCircuits ==
    \A r \in Runs :
        /\ (g_in[r].requirements.thread_groups = {} /\ g_local[r].pc # "prepare") =>
               /\ g_local[r].pc = "done"
               /\ g_local[r].out = RaisedOut("ValueError")
               /\ g_local[r].started = 0
               /\ g_local[r].hist = <<>>
               /\ g_local[r].jmx_content = <<>>
               /\ g_local[r].validation_errors = <<>>
               /\ Ctx(r) = NoContext
        /\ g_local[r].pc # "done" => g_local[r].out = NoOut
        /\ g_local[r].pc = "done" =>
               \/ /\ g_local[r].out.kind = "returned"
                  /\ g_local[r].out.error = ""
                  /\ validate_xml(g_local[r].out.doc)[1]
               \/ /\ g_local[r].out.kind = "raised"
                  /\ g_local[r].out.error \in {"ValueError", "Exception"}
                  /\ g_local[r].out.doc = <<>>

\* a call whose requirements name no thread group has ended with ValueError
C11_Witness ==
    \E r \in Runs :
        /\ g_in[r].requirements.thread_groups = {}
        /\ g_local[r].pc = "done"
        /\ g_local[r].out = RaisedOut("ValueError")

(***************************************************************************)
(* One compilation, step by step: the context is built from the            *)
(* requirements and the files (line 249), the document is assembled from    *)
(* one plan of the LLM (line 264) and validated (line 265).                 *)
(***************************************************************************)
AsmRequirements ==
    {Requirements("Plan", tgs, jsons, csvs) :
        tgs \in {{}, {"TG-A"}, {"TG-A", "TG-B"}},
        jsons \in {{}, {"body.json"}, JsonNames},
        csvs \in {{}, {"data.csv"}, CsvNames}}

\* the files a request may carry, in the order they are uploaded
AsmFileList ==
    <<FileEntry("body.json", "str", "good"), FileEntry("TG-B.json", "str", "bad"),
      FileEntry("data.csv", "str", "good"), FileEntry("TG-B.csv", "str", "good")>>

RECURSIVE SubList(_, _, _)
SubList(items, keep, i) ==
    IF i > Len(items) THEN <<>>
    ELSE (IF i \in keep THEN <<items[i]>> ELSE <<>>) \o SubList(items, keep, i + 1)

AsmFiles == {SubList(AsmFileList, keep, 1) : keep \in SUBSET (1..Len(AsmFileList))}

\* a plan that names both thread groups and their requests
PlanTwoGroups ==
    [thread_groups |->
        <<LlmThreadGroup("continue", <<LlmRequest("POST", <<>>)>>),
          [name |-> "TG-B",
           http_requests |->
               <<[name |-> "TG-B", method |-> "GET",
                  assertions |-> <<LlmAssertion(<<JStr("200")>>),
                                   LlmAssertion(<<JStr("a<b")>>)>>]>>]>>]

\* a plan whose method is markup instead of a verb
PlanInjected == PlanData("<HTTPSamplerProxy/>", <<JStr("200")>>)

\* a JSON object with none of the keys the assembler reads
PlanEmpty == <<>>

AsmPlans ==
    {PlanData("POST", <<JStr("200")>>), PlanData("POST", <<>>), PlanTwoGroups,
     PlanInjected, PlanEmpty, FullPlanData, PlanData("POST", <<JNum(200)>>),
     PlanData("<hashTree>", <<JStr("200")>>)}

AsmInit ==
    /\ a_req \in AsmRequirements
    /\ a_files \in AsmFiles
    /\ a_plan \in AsmPlans
    /\ a_seed \in HashSeeds
    /\ a_ctx = NoContext
    /\ a_doc = <<>>
    /\ a_pc = "prepare"
    /\ AsmOthersIdle

\* line 249, the context is built
AsmPrepare ==
    /\ a_pc = "prepare"
    /\ \E context \in {prepare_generation_context(a_req, a_files)} :
          /\ context # ValueErrorRaised
          /\ a_ctx' = context
    /\ a_pc' = "assemble"
    /\ UNCHANGED <<a_req, a_files, a_plan, a_seed, a_doc>>
    /\ UNCHANGED asmOthers

\* lines 253-255, the ValueError of line 452 is raised again
AsmPrepareFails ==
    /\ a_pc = "prepare"
    /\ \E context \in {prepare_generation_context(a_req, a_files)} :
          context = ValueErrorRaised
    /\ a_pc' = "failed"
    /\ UNCHANGED <<a_req, a_files, a_plan, a_seed, a_ctx, a_doc>>
    /\ UNCHANGED asmOthers

\* line 264, the document is assembled
AsmAssemble ==
    /\ a_pc = "assemble"
    /\ \E assembled \in {assemble_jmx_from_structured_data(a_plan, a_ctx, load_jmx_templates, a_seed)} :
          /\ ~assembled.raised
          /\ a_doc' = assembled.xml
    /\ a_pc' = "validate"
    /\ UNCHANGED <<a_req, a_files, a_plan, a_seed, a_ctx>>
    /\ UNCHANGED asmOthers

\* line 264 raises, lines 274-279 catch it
AsmAssembleRaises ==
    /\ a_pc = "assemble"
    /\ \E assembled \in {assemble_jmx_from_structured_data(a_plan, a_ctx, load_jmx_templates, a_seed)} :
          assembled.raised
    /\ a_pc' = "raised"
    /\ UNCHANGED <<a_req, a_files, a_plan, a_seed, a_ctx, a_doc>>
    /\ UNCHANGED asmOthers

\* lines 265 and 272, the document passes validate_xml and is returned
AsmReturn ==
    /\ a_pc = "validate"
    /\ \E checked \in {validate_xml(a_doc)} : checked[1]
    /\ a_pc' = "returned"
    /\ UNCHANGED <<a_req, a_files, a_plan, a_seed, a_ctx, a_doc>>
    /\ UNCHANGED asmOthers

\* lines 266-269, the document fails validate_xml
AsmInvalid ==
    /\ a_pc = "validate"
    /\ \E checked \in {validate_xml(a_doc)} : ~checked[1]
    /\ a_pc' = "invalid"
    /\ UNCHANGED <<a_req, a_files, a_plan, a_seed, a_ctx, a_doc>>
    /\ UNCHANGED asmOthers

AsmNext ==
    \/ AsmPrepare
    \/ AsmPrepareFails
    \/ AsmAssemble
    \/ AsmAssembleRaises
    \/ AsmReturn
    \/ AsmInvalid

SpecAssemble == AsmInit /\ [][AsmNext]_vars

(***************************************************************************)
(* Properties of one compilation.                                           *)
(***************************************************************************)
AsmProcessed == safe_process_files(a_files)
AsmContextBuilt == a_pc \notin {"prepare", "failed"}

\* The files lines 470-476 give the thread groups, in the order of line 464:
\* for each one the file of its own name, else the first one no earlier
\* thread group took.
RECURSIVE Bindings(_, _, _, _, _)
Bindings(tgs, jsons, csvs, used_json, used_csv) ==
    IF tgs = <<>> THEN <<>>
    ELSE LET own_json == {f \in jsons \ used_json : f = Head(tgs) \o ".json"}
             own_csv == {f \in csvs \ used_csv : f = Head(tgs) \o ".csv"}
             free_json == IF own_json # {} THEN own_json ELSE jsons \ used_json
             free_csv == IF own_csv # {} THEN own_csv ELSE csvs \ used_csv
             json == IF free_json = {} THEN NoName ELSE Sorted(free_json)[1]
             csv == IF free_csv = {} THEN NoName ELSE Sorted(free_csv)[1]
         IN <<[json |-> json, csv |-> csv]>>
            \o Bindings(Tail(tgs), jsons, csvs,
                        used_json \cup {json}, used_csv \cup {csv})

AsmBindings == Bindings(Sorted(a_req.thread_groups), a_req.json_files, a_req.csv_files, {}, {})

\* the body or the data set referenced for the i-th thread group is not
\* among the processed files
FileAbsent(i) ==
    \/ AsmBindings[i].json \notin DOMAIN AsmProcessed.json_contents
    \/ AsmBindings[i].csv \notin DOMAIN AsmProcessed.csv_configs

\* the body as the processed files supply it
SuppliedBody(i) ==
    IF AsmBindings[i].json \in DOMAIN AsmProcessed.json_contents
    THEN BodyOf(AsmProcessed.json_contents[AsmBindings[i].json].raw_content)
    ELSE EmptyBody

\* C12: when the body or the data set referenced for a request is missing
\* from the processed files, the context is still built, with one thread
\* group per name of the requirements; the request of that thread group keeps
\* the body as supplied, is not marked parameterized, and its thread group has
\* no data set.
C12_MissingFileSkipsParameterization ==
    AsmContextBuilt =>
        /\ Len(a_ctx.thread_groups) = Cardinality(a_req.thread_groups)
        /\ \A i \in 1..Len(a_ctx.thread_groups) :
              LET tg == a_ctx.thread_groups[i] IN
              /\ tg.name = Sorted(a_req.thread_groups)[i]
              /\ Len(tg.http_requests) = 1
              /\ FileAbsent(i) =>
                    /\ ~tg.http_requests[1].is_parameterized
                    /\ tg.http_requests[1].json_body = SuppliedBody(i)
                    /\ tg.csv_configs = <<>>

\* two thread groups: the first one has both of its files, the second one's
\* data set was named in the requirements and never uploaded
C12_Witness ==
    /\ AsmContextBuilt
    /\ Len(a_ctx.thread_groups) = 2
    /\ ~FileAbsent(1)
    /\ a_ctx.thread_groups[1].http_requests[1].is_parameterized
    /\ AsmBindings[2].csv # NoName
    /\ AsmBindings[2].json \in DOMAIN AsmProcessed.json_contents
    /\ AsmBindings[2].csv \notin DOMAIN AsmProcessed.csv_configs

\* the elements the test plan tree is made of
StructTags ==
    {"TestPlan", "ThreadGroup", "CSVDataSet", "HeaderManager", "ConfigTestElement",
     "RandomVariableConfig", "HTTPSamplerProxy", "ResponseAssertion", "ResultCollector"}

\* the token where a structural node ends
NodeEnd(t) == t.k \in {"close", "empty"} /\ t.tag \in StructTags

\* Every structural node is followed at once by a hashTree, and every
\* hashTree follows a structural node or the root's opening tag: each node
\* has one container and each container one node.
Nested(doc) ==
    \A i \in 1..Len(doc) :
        /\ NodeEnd(doc[i]) => i < Len(doc) /\ doc[i + 1] \in {HtOpen, HtEmpty}
        /\ doc[i] \in {HtOpen, HtEmpty} =>
               i > 1 /\ (NodeEnd(doc[i - 1]) \/ doc[i - 1] = RootOpen)

\* C13: in every document that is assembled, validated and returned, each
\* structural node (test plan, thread group, data set, header manager, request
\* defaults, random variable, sampler, assertion, listener) is immediately
\* followed by exactly one hashTree container.
C13_EveryNodeHasItsSubtree == a_pc = "returned" => Nested(a_doc)

\* with every plan whose texts hold no markup the templates keep the pairing
NestedWithoutMarkup == (a_pc = "returned" /\ a_plan # PlanInjected) => Nested(a_doc)


\* where the elements of one tag open in a document
OpensOf(doc, tag) == {i \in 1..Len(doc) : doc[i].k = "open" /\ doc[i].tag = tag}

\* the last token of the part of the document that starts with the thread
\* group opening at i: the one before the next thread group or the listener
SegmentEnd(doc, i) ==
    MinOf({j \in OpensOf(doc, "ThreadGroup") \cup OpensOf(doc, "ResultCollector")
               \cup {Len(doc) + 1} : j > i}) - 1

\* the samplers named name in doc[lo..hi]
SamplersIn(doc, lo, hi, name) ==
    {j \in lo..hi : doc[j] = OpenA("HTTPSamplerProxy", name)}

\* the sampler opening at j is closed and followed by a hashTree that holds
\* assertions and nothing else
AssertionsFollow(doc, j) ==
    LET c == MinOf({x \in j..Len(doc) : doc[x] = Close("HTTPSamplerProxy")})
        e == MinOf({x \in c..Len(doc) : doc[x] = HtClose})
    IN \/ doc[c + 1] = HtEmpty
       \/ /\ doc[c + 1] = HtOpen
          /\ \A x \in (c + 2)..(e - 1) :
                doc[x].tag \in StructTags => doc[x].tag = "ResponseAssertion"

\* the thread groups and requests of the context are all in the document
AllRequestsAssembled(context, doc) ==
    /\ Cardinality(OpensOf(doc, "ThreadGroup")) = Len(context.thread_groups)
    /\ \A i \in 1..Len(context.thread_groups) :
          LET tg == context.thread_groups[i]
              starts == {s \in 1..Len(doc) : doc[s] = OpenA("ThreadGroup", tg.name)}
          IN /\ Cardinality(starts) = 1
             /\ \A s \in starts : \A r \in 1..Len(tg.http_requests) :
                   LET found == SamplersIn(doc, s, SegmentEnd(doc, s),
                                           tg.http_requests[r].name)
                   IN /\ Cardinality(found) = 1
                      /\ \A j \in found : AssertionsFollow(doc, j)

\* C14: in a returned document every thread group of the context has one
\* thread-group node, and every request of the context has exactly one
\* sampler inside its own thread group's part of the document, followed by a
\* hashTree of assertions; no request is missing.
C14_EveryRequestHasOneSampler ==
    a_pc = "returned" => AllRequestsAssembled(a_ctx, a_doc)

\* the plan gives data for the request of every thread group of the context
PlanNamesAll(plan, context) ==
    \A i \in 1..Len(context.thread_groups) :
        LET tg == context.thread_groups[i]
            tg_data_from_llm == ByName(Get(plan, "thread_groups", <<>>), tg.name)
        IN \A r \in 1..Len(tg.http_requests) :
              DOMAIN ByName(Get(tg_data_from_llm, "http_requests", <<>>),
                            tg.http_requests[r].name) # {}

\* when the plan names every request of the context, none is missing
AllAssembledWhenNamed ==
    (a_pc = "returned" /\ PlanNamesAll(a_plan, a_ctx))
        => AllRequestsAssembled(a_ctx, a_doc)


\* the thread groups of the context with a request that was parameterized
Parameterized(context) ==
    {i \in 1..Len(context.thread_groups) :
        \E r \in 1..Len(context.thread_groups[i].http_requests) :
            context.thread_groups[i].http_requests[r].is_parameterized}

\* the data sets in the part of the document that belongs to a thread group
DataSetsOf(doc, tg_name) ==
    {j \in OpensOf(doc, "CSVDataSet") :
        \E s \in 1..j : /\ doc[s] = OpenA("ThreadGroup", tg_name)
                        /\ j <= SegmentEnd(doc, s)}

\* the value of ignoreFirstLine in the data set opening at j
IgnoreFirstLine(doc, j) ==
    LET p == MinOf({x \in j..Len(doc) : doc[x] = OpenA("boolProp", "ignoreFirstLine")})
    IN doc[p + 1].v

AsmAssembled == a_pc \in {"validate", "returned", "invalid"}

\* C15: in an assembled document every thread group with a parameterized
\* request has its data set, and every data set node carries
\* ignoreFirstLine = true.
C15_IgnoreFirstLineForced ==
    AsmAssembled =>
        \A i \in Parameterized(a_ctx) :
            LET sets == DataSetsOf(a_doc, a_ctx.thread_groups[i].name) IN
            /\ Cardinality(sets) = Len(a_ctx.thread_groups[i].csv_configs)
            /\ sets # {}
            /\ \A j \in sets : IgnoreFirstLine(a_doc, j) = "true"

\* a returned document with two thread groups, the first one parameterized
\* from its data set and the second one not
C15_Witness ==
    /\ a_pc = "returned"
    /\ Parameterized(a_ctx) = {1}
    /\ Len(a_ctx.thread_groups) = 2
    /\ DataSetsOf(a_doc, "TG-A") # {}


(***************************************************************************)
(* _safe_process_single_csv (lines 996-1074) on the text of one file.  The  *)
(* text is held as the rows csv.reader yields for it: one sequence of       *)
(* cells per line, the empty sequence for an empty line.                    *)
(***************************************************************************)
MaxRows == 6

\* data_rows[:5] (line 1055)
sample_size == 5

\* a field longer than csv.field_size_limit(), on which csv.reader raises
\* csv.Error
BigField == "<field over the limit>"

RowNames == <<"r1", "r2", "r3", "r4", "r5", "r6", "r7", "r8">>
DataRow(i) == <<RowNames[i], "v">>
DataLines(n) == [i \in 1..n |-> DataRow(i)]

\* not content_str.strip(): no line holds anything but white space
IsBlankText(content_str) ==
    \A i \in 1..Len(content_str) :
        \/ content_str[i] = <<>>
        \/ Len(content_str[i]) = 1 /\ StripS(content_str[i][1]) = ""

CsvErrorRaised(content_str) ==
    \E i \in 1..Len(content_str) : \E j \in 1..Len(content_str[i]) :
        content_str[i][j] = BigField

\* len(data_rows) counted with the header line in it
total_rows_with_header(content_str) == Len(content_str)

\* data_rows = list(csv_reader); total_data_rows = len(data_rows)
\* (lines 1051-1052)
total_data_rows(content_str) == Len(content_str) - 1

\* data_rows without the cut of line 1055
sample_all(data_rows) == data_rows

\* sample_data = data_rows[:5] (line 1055)
sample_data(data_rows) == SubSeq(data_rows, 1, MinOf({sample_size, Len(data_rows)}))

\* lines 1019-1074
csv_details(filename, content_str) ==
    IF IsBlankText(content_str) THEN NoResult
    ELSE IF CsvErrorRaised(content_str) THEN NoResult
    ELSE IF content_str = <<>>
         THEN [headers |-> <<>>, sample_data |-> <<>>, total_rows |-> 0,
               filepath |-> filename, raw_content |-> content_str]
    ELSE [headers |-> CleanHeaders(content_str[1]),
          sample_data |-> sample_data(Tail(content_str)),
          total_rows |-> total_data_rows(content_str),
          filepath |-> filename,
          raw_content |-> content_str]

\* the first lines of the files the model draws from
HeaderLines ==
    {<<>>, <<"id">>, <<" id ">>, <<" ">>, <<"">>, <<"id", "code">>, <<" id ", "">>,
     <<"", " ">>, <<" ", "code">>, <<"id", BigField>>}

CsvTexts ==
    {<<>>}
    \cup {<<h>> \o DataLines(n) : h \in HeaderLines, n \in 0..MaxRows}
    \cup {<<h, <<>>>> : h \in HeaderLines}
    \cup {<<h>> \o DataLines(2) \o <<(<<"r3", BigField>>)>> : h \in HeaderLines}

CsvFiles == {[filename |-> "data.csv", content |-> c] : c \in CsvTexts}


(***************************************************************************)
(* The ${name} tokens of a string.  A text is one of a few strings; the     *)
(* tables give what startswith/endswith, the slice [2:-1] and re.findall    *)
(* make of each.                                                            *)
(***************************************************************************)
VarTexts == {"${id}", "pre ${id} post", "${a}${b}", "${}", "plain"}

\* value.startswith('${') and value.endswith('}')
IsWholeToken(text) == text \in {"${id}", "${a}${b}", "${}"}

\* value[2:-1]
Inner(text) ==
    CASE text = "${id}" -> "id"
      [] text = "${a}${b}" -> "a}${b"
      [] OTHER -> ""

\* '${' in value and '}' in value
HasTokenMarks(text) == text \in {"${id}", "pre ${id} post", "${a}${b}", "${}"}

\* re.findall(r'\$\{([^}]+)\}', value)
FindAll(text) ==
    CASE text = "${id}" -> <<"id">>
      [] text = "pre ${id} post" -> <<"id">>
      [] text = "${a}${b}" -> <<"a", "b">>
      [] OTHER -> <<>>

\* float('nan'), which json.loads builds from NaN
JNaN == [t |-> "nan"]

\* the keys of an object in the order the loop over obj.items() meets them
KeyOrder == <<"j", "k", "list", "o">>
KeysOf_items(f) == SelectSeq(KeyOrder, LAMBDA key : key \in DOMAIN f)

\* _clean_json_values (lines 1191-1202) and _clean_json_data
\* (file_processor.py 329-349)
RECURSIVE clean_json_values(_)
clean_json_values(obj) ==
    CASE obj.t = "obj" -> JObj([key \in DOMAIN obj.f |-> clean_json_values(obj.f[key])])
      [] obj.t = "arr" -> JArr([i \in 1..Len(obj.items) |-> clean_json_values(obj.items[i])])
      [] obj.t = "nan" -> JNull
      [] OTHER -> obj

\* extract_vars of _extract_json_variables (lines 1211-1225): a string is
\* looked at only where it is the value of a key
RECURSIVE extract_vars(_, _)
RECURSIVE extract_vars_items(_, _, _)
RECURSIVE extract_vars_list(_, _)
extract_vars_items(f, keys, variables) ==
    IF keys = <<>> THEN variables
    ELSE LET value == f[Head(keys)]
             var_name == Inner(value.s)
             after ==
                 IF value.t = "str" /\ IsWholeToken(value.s)
                 THEN IF var_name # "" /\ var_name \notin SeqRange(variables)
                      THEN Append(variables, var_name)
                      ELSE variables
                 ELSE IF value.t \in {"obj", "arr"}
                 THEN extract_vars(value, variables)
                 ELSE variables
         IN extract_vars_items(f, Tail(keys), after)

extract_vars_list(items, variables) ==
    IF items = <<>> THEN variables
    ELSE extract_vars_list(Tail(items), extract_vars(Head(items), variables))

extract_vars(obj, variables) ==
    CASE obj.t = "obj" -> extract_vars_items(obj.f, KeysOf_items(obj.f), variables)
      [] obj.t = "arr" -> extract_vars_list(obj.items, variables)
      [] OTHER -> variables

\* _extract_json_variables (lines 1204-1228)
extract_json_variables(json_obj) ==
    IF json_obj = JNull THEN <<>> ELSE extract_vars(json_obj, <<>>)

\* extract_vars of FileProcessorService._extract_json_variables
\* (file_processor.py 361-375), which fills a set
RECURSIVE fp_extract_vars(_)
fp_extract_vars(obj) ==
    CASE obj.t = "obj" ->
            UNION {LET value == obj.f[key] IN
                   IF value.t = "str" /\ HasTokenMarks(value.s)
                   THEN SeqRange(FindAll(value.s))
                   ELSE IF value.t \in {"obj", "arr"} THEN fp_extract_vars(value)
                   ELSE {} : key \in DOMAIN obj.f}
      [] obj.t = "arr" ->
            UNION {fp_extract_vars(obj.items[i]) : i \in 1..Len(obj.items)}
      [] OTHER -> {}

\* sorted(list(variables))
VarOrder == <<"a", "b", "id">>
SortedVars(variables) == SelectSeq(VarOrder, LAMBDA name : name \in variables)

\* FileProcessorService._extract_json_variables (file_processor.py 351-378)
fp_extract_json_variables(json_obj) == SortedVars(fp_extract_vars(json_obj))


\* lines 1149-1170 of _safe_process_single_json on the text it extracted: a
\* RecursionError of json.loads reaches the handler of line 1175
json_details(content) ==
    IF content.fmt = "empty" \/ json_loads(content) = RecursionError THEN NoResult
    ELSE LET parsed_json == json_loads(content)
             cleaned_json ==
                 IF parsed_json = JSONDecodeError \/ ~Truthy(parsed_json) THEN JNull
                 ELSE clean_json_values(parsed_json)
             variables ==
                 IF Truthy(cleaned_json) THEN extract_json_variables(cleaned_json)
                 ELSE <<>>
         IN [raw_content |-> content, parsed |-> cleaned_json,
             variables |-> variables]

\* lines 1103-1111 of _process_json_files for one file
json_contents_of(file_info) ==
    LET content == json_details(file_info.content) IN
    IF content = NoResult THEN <<>>
    ELSE DictSet(<<>>, file_info.filename, content)

\* _get_content_preview (file_processor.py 423-445) on a text shorter than
\* max_preview_length and free of control characters
get_content_preview(content) == content

\* _process_json_file (file_processor.py 166-218)
process_json_text(text_content, filename) ==
    IF json_loads(text_content) \in {JSONDecodeError, RecursionError}
    THEN [filename |-> filename, type |-> "json", error |-> TRUE,
          data |-> JNull, content |-> EmptyBody]
    ELSE LET cleaned_data == clean_json_values(json_loads(text_content)) IN
         [filename |-> filename, type |-> "json", error |-> FALSE,
          data |-> [content |-> cleaned_data,
                    variables |-> fp_extract_json_variables(cleaned_data)],
          content |-> get_content_preview(text_content)]

\* lines 48-51 of process_uploaded_files and 75-88 of _process_single_file
\* for one file
processed_files_of(file) ==
    IF file.content.fmt = "empty" THEN <<>>
    ELSE <<process_json_text(file.content, file.filename)>>

\* the values of the fragments the model draws from
Leaves == {JStr(text) : text \in VarTexts} \cup {JNum(1), JNaN}

FragmentValues ==
    {Obj1("k", v) : v \in Leaves}
    \cup {Obj2("j", v1, "k", v2) : v1 \in Leaves, v2 \in Leaves}
    \cup {Obj1("o", Obj1("k", v)) : v \in Leaves}
    \cup {Obj1("list", JArr(<<v>>)) : v \in Leaves}
    \cup {JArr(<<v, Obj1("k", JStr("${id}"))>>) : v \in Leaves}
    \cup {JArr(<<Obj1("k", v)>>) : v \in Leaves}
    \cup Leaves
    \cup {JObj(<<>>), JArr(<<>>), JNull}

JsonFiles ==
    {[filename |-> "body.json", content |-> c] :
        c \in {BodyText("compact", v) : v \in FragmentValues}
              \cup {InvalidBody, TooDeepBody, EmptyBody}}

(***************************************************************************)
(* One uploaded file and the function that processes it.                    *)
(***************************************************************************)
SingleInit ==
    /\ s_file \in CsvFiles \cup JsonFiles
    /\ s_out = <<>>
    /\ s_pc = "start"
    /\ SingleOthersIdle

\* _safe_process_single_csv on a .csv file
SingleCsv ==
    /\ s_pc = "start"
    /\ s_file.filename \in CsvNames
    /\ s_out' = csv_details(s_file.filename, s_file.content)
    /\ s_pc' = "csv"
    /\ UNCHANGED s_file
    /\ UNCHANGED singleOthers

\* _process_json_files of the generator on a .json file
SingleJson ==
    /\ s_pc = "start"
    /\ s_file.filename \in JsonNames
    /\ s_out' = json_contents_of(s_file)
    /\ s_pc' = "json"
    /\ UNCHANGED s_file
    /\ UNCHANGED singleOthers

\* process_uploaded_files of the upload service on a .json file
SingleUpload ==
    /\ s_pc = "start"
    /\ s_file.filename \in JsonNames
    /\ s_out' = processed_files_of(s_file)
    /\ s_pc' = "upload"
    /\ UNCHANGED s_file
    /\ UNCHANGED singleOthers

SingleNext ==
    \/ SingleCsv
    \/ SingleJson
    \/ SingleUpload

SpecSingle == SingleInit /\ [][SingleNext]_vars


(***************************************************************************)
(* Properties of the processing of one file.                                *)
(***************************************************************************)
\* the line names at least one column
HasHeaderName(line) == \E j \in 1..Len(line) : StripS(line[j]) # ""

\* csv.reader reads the whole text
Readable(content_str) == ~IsBlankText(content_str) /\ ~CsvErrorRaised(content_str)

\* C16: a file that holds a header line and no data row is processed without
\* failing: the record has total_rows = 0, sample_data = [], the header list
\* of the line, which is not empty, and the text as it was.
C16_HeaderOnlyFile ==
    (s_pc = "csv" /\ Len(s_file.content) = 1 /\ HasHeaderName(s_file.content[1])
        /\ Readable(s_file.content))
    => /\ s_out # NoResult
       /\ s_out.total_rows = 0
       /\ s_out.sample_data = <<>>
       /\ s_out.headers # <<>>
       /\ \A n \in 1..Len(s_out.headers) :
             \E j \in 1..Len(s_file.content[1]) :
                 s_out.headers[n] = StripS(s_file.content[1][j])
       /\ s_out.raw_content = s_file.content

\* the file " id ," and nothing after it
C16_Witness ==
    /\ s_pc = "csv"
    /\ s_file.content = <<(<<" id ", "">>)>>
    /\ s_out.total_rows = 0
    /\ s_out.headers = <<"id">>

\* the positions of the cells of a line that hold a name
NamedCells(line) == {j \in 1..Len(line) : StripS(line[j]) # ""}

\* C17: for every file that is read, total_rows is the number of rows after
\* the first line, sample_data is the first min(5, total_rows) of them in
\* order, and headers are the cells of the first line, trimmed, the empty ones
\* left out; a file gets no record only when it is blank or csv.reader
\* rejects it.
C17_SampleIsPrefixOfRows ==
    s_pc = "csv" =>
        /\ (s_out = NoResult) <=> ~Readable(s_file.content)
        /\ s_out # NoResult =>
              LET data_rows == Tail(s_file.content)
                  line == s_file.content[1]
              IN /\ s_out.total_rows = Len(data_rows)
                 /\ Len(s_out.sample_data) = MinOf({sample_size, s_out.total_rows})
                 /\ \A i \in 1..Len(s_out.sample_data) :
                       s_out.sample_data[i] = data_rows[i]
                 /\ Len(s_out.headers) = Cardinality(NamedCells(line))
                 /\ \A j \in NamedCells(line) :
                       s_out.headers[Cardinality({x \in NamedCells(line) : x <= j})]
                           = StripS(line[j])

\* a file with more than five data rows and a blank header cell
C17_Witness ==
    /\ s_pc = "csv"
    /\ s_out # NoResult
    /\ Len(s_file.content) > sample_size + 1
    /\ Len(s_out.sample_data) = sample_size
    /\ s_file.content[1] = <<" id ", "">>
    /\ s_out.headers = <<"id">>


\* the generator's record of a fragment json.loads rejects: stored under the
\* filename, the text kept, nothing parsed, no variables, no error
KeptAsText(json_contents, file) ==
    /\ file.filename \in DOMAIN json_contents
    /\ json_contents[file.filename] =
           [raw_content |-> file.content, parsed |-> JNull, variables |-> <<>>]

\* the same for the upload service's list of records
KeptAsTextUpload(processed_files, file) ==
    /\ Len(processed_files) = 1
    /\ processed_files[1].filename = file.filename
    /\ ~processed_files[1].error
    /\ processed_files[1].content = file.content
    /\ processed_files[1].data = JNull

\* the file is a fragment whose text json.loads rejects
InvalidFragment == s_file.filename \in JsonNames /\ s_file.content = InvalidBody

\* C18: a fragment whose text is not JSON is not an error in either service:
\* its record is stored under its filename, keeps the text, has parsed = none
\* and no variables, and carries no error.
C18_InvalidFragmentKept ==
    InvalidFragment =>
        /\ s_pc = "json" => KeptAsText(s_out, s_file)
        /\ s_pc = "upload" => KeptAsTextUpload(s_out, s_file)

\* the generator's _safe_process_single_json does keep it
InvalidFragmentKeptByGenerator ==
    (s_pc = "json" /\ InvalidFragment) => KeptAsText(s_out, s_file)


\* the identifiers of the ${name} tokens in the string leaves of a value, at
\* any depth
RECURSIVE AllTokens(_)
AllTokens(v) ==
    CASE v.t = "str" -> SeqRange(FindAll(v.s))
      [] v.t = "obj" -> UNION {AllTokens(v.f[key]) : key \in DOMAIN v.f}
      [] v.t = "arr" -> UNION {AllTokens(v.items[i]) : i \in 1..Len(v.items)}
      [] OTHER -> {}

\* a list that names exactly the members of a set, each once
ListsExactly(variables, names) ==
    SeqRange(variables) = names /\ Len(variables) = Cardinality(names)

\* the file is a fragment that json.loads parses
ParsedFragment ==
    /\ s_file.filename \in JsonNames
    /\ s_file.content.fmt \notin {"invalid", "too_deep", "empty"}

\* C19: the variables list of a parsed fragment holds exactly the identifiers
\* of the ${name} tokens of its string leaves, inside objects and inside
\* arrays at any depth, each one once, in both services.
C19_VariablesAreAllTokens ==
    ParsedFragment =>
        /\ s_pc = "json" =>
              ListsExactly(s_out[s_file.filename].variables,
                           AllTokens(s_file.content.val))
        /\ s_pc = "upload" =>
              ListsExactly(s_out[1].data.variables, AllTokens(s_file.content.val))

\* the identifiers of the tokens in the strings that are the value of a key
RECURSIVE KeyedTokens(_)
KeyedTokens(v) ==
    CASE v.t = "obj" ->
            UNION {IF v.f[key].t = "str" THEN SeqRange(FindAll(v.f[key].s))
                   ELSE KeyedTokens(v.f[key]) : key \in DOMAIN v.f}
      [] v.t = "arr" -> UNION {KeyedTokens(v.items[i]) : i \in 1..Len(v.items)}
      [] OTHER -> {}

\* the upload service lists the tokens of the strings under a key, and those
\* only
UploadListsKeyedTokens ==
    (ParsedFragment /\ s_pc = "upload") =>
        ListsExactly(s_out[1].data.variables, KeyedTokens(s_file.content.val))


(***************************************************************************)
(* Properties of the binding of files to thread groups.                     *)
(***************************************************************************)
\* the thread groups a file is bound to in the context: as the body of the
\* request, or as a data set
JsonParents(context, f) ==
    {i \in 1..Len(context.thread_groups) :
        \E r \in 1..Len(context.thread_groups[i].http_requests) :
            context.thread_groups[i].http_requests[r].source_json_filename = f}

CsvParents(context, f) ==
    {i \in 1..Len(context.thread_groups) :
        \E c \in 1..Len(context.thread_groups[i].csv_configs) :
            context.thread_groups[i].csv_configs[c].filename = f}

\* the thread group names a file carries in its own name
DeclaredParents(f) == {tg_name \in {"TG-A", "TG-B"} : NameIn(tg_name, f)}

\* the file is bound to no thread group, or to one, and if its name carries
\* the name of a thread group, to that one
ResolvedOrDropped(context, parents, f) ==
    /\ Cardinality(parents) <= 1
    /\ \A i \in parents :
          DeclaredParents(f) # {} => context.thread_groups[i].name \in DeclaredParents(f)

\* C20: in the context every file named in the requirements is bound to at
\* most one thread group, and a file that carries a thread group's name is
\* bound to that thread group or to none, never to another one.
C20_ParentResolved ==
    AsmContextBuilt =>
        /\ \A f \in a_req.json_files :
              ResolvedOrDropped(a_ctx, JsonParents(a_ctx, f), f)
        /\ \A f \in a_req.csv_files :
              ResolvedOrDropped(a_ctx, CsvParents(a_ctx, f), f)

\* every file is bound to at most one thread group, and every thread group
\* has the one request of its own name
BoundAtMostOnce ==
    AsmContextBuilt =>
        /\ \A f \in a_req.json_files : Cardinality(JsonParents(a_ctx, f)) <= 1
        /\ \A f \in a_req.csv_files : Cardinality(CsvParents(a_ctx, f)) <= 1
        /\ \A i \in 1..Len(a_ctx.thread_groups) :
              /\ Len(a_ctx.thread_groups[i].http_requests) = 1
              /\ a_ctx.thread_groups[i].http_requests[1].name
                     = a_ctx.thread_groups[i].name


(***************************************************************************)
(* Properties of the request records of the context.                        *)
(***************************************************************************)
\* json_body holds a text
BodyEmbedded(http_req_info) == http_req_info.json_body.fmt # "empty"

\* source_json_filename names a file
FileReferenced(http_req_info) == http_req_info.source_json_filename # None

\* C22: every request record of a built context has exactly one of its two
\* body sources populated, the embedded body or the file reference, never
\* both and never neither.
C22_ExactlyOneBodySource ==
    AsmContextBuilt =>
        \A i \in 1..Len(a_ctx.thread_groups) :
            \A r \in 1..Len(a_ctx.thread_groups[i].http_requests) :
                LET http_req_info == a_ctx.thread_groups[i].http_requests[r] IN
                BodyEmbedded(http_req_info) # FileReferenced(http_req_info)

\* a body is never embedded without the name of the file it came from
BodyComesWithItsFile ==
    AsmContextBuilt =>
        \A i \in 1..Len(a_ctx.thread_groups) :
            \A r \in 1..Len(a_ctx.thread_groups[i].http_requests) :
                LET http_req_info == a_ctx.thread_groups[i].http_requests[r] IN
                BodyEmbedded(http_req_info) => FileReferenced(http_req_info)


(***************************************************************************)
(* Properties of the search for a thread group's files (lines 456-479).     *)
(***************************************************************************)
\* json_filename and csv_filename of each pass of the loop of line 464
RECURSIVE BoundFiles(_, _, _, _, _)
BoundFiles(tgs, all_json_files, all_csv_files, used_json_files, used_csv_files) ==
    IF tgs = <<>> THEN <<>>
    ELSE LET json_filename == BindFile(all_json_files, used_json_files, Head(tgs))
             csv_filename == BindFile(all_csv_files, used_csv_files, Head(tgs))
         IN <<[tg_name |-> Head(tgs), json_filename |-> json_filename,
               csv_filename |-> csv_filename]>>
            \o BoundFiles(Tail(tgs), all_json_files, all_csv_files,
                          used_json_files \cup ({json_filename} \ {NoName}),
                          used_csv_files \cup ({csv_filename} \ {NoName}))

AsmBound ==
    BoundFiles(Sorted(a_req.thread_groups), Sorted(a_req.json_files), Sorted(a_req.csv_files), {}, {})

\* C23: each JSON file and each CSV file named in the requirements is given
\* to at most one thread group: a file given to one thread group is not
\* given to a later one, and the context records the JSON file of each
\* thread group as it was given.
C23_BindingExclusive ==
    AsmContextBuilt =>
        /\ Len(AsmBound) = Len(a_ctx.thread_groups)
        /\ \A i \in 1..Len(AsmBound) :
              /\ AsmBound[i].json_filename \in a_req.json_files \cup {NoName}
              /\ AsmBound[i].csv_filename \in a_req.csv_files \cup {NoName}
              /\ a_ctx.thread_groups[i].http_requests[1].source_json_filename
                     = (IF AsmBound[i].json_filename = NoName THEN None
                        ELSE AsmBound[i].json_filename)
              /\ \A j \in 1..Len(AsmBound) :
                    i # j =>
                       /\ AsmBound[i].json_filename = AsmBound[j].json_filename
                              => AsmBound[i].json_filename = NoName
                       /\ AsmBound[i].csv_filename = AsmBound[j].csv_filename
                              => AsmBound[i].csv_filename = NoName

\* two thread groups, one JSON file each and one CSV file between them: the
\* second thread group is offered no CSV file
C23_Witness ==
    /\ AsmContextBuilt
    /\ Len(AsmBound) = 2
    /\ AsmBound[1].json_filename # NoName
    /\ AsmBound[2].json_filename # NoName
    /\ AsmBound[1].csv_filename = "data.csv"
    /\ AsmBound[2].csv_filename = NoName


\* the files among names that carry the thread group's name
OwnFiles(tg_name, names) == {f \in names : NameIn(tg_name, f)}

\* the files given to the thread groups before the i-th
GivenBefore(bound, i, kind) ==
    {IF kind = "json" THEN bound[j].json_filename ELSE bound[j].csv_filename :
        j \in 1..(i - 1)}

\* C24: a thread group is given a file that carries its name whenever the
\* requirements name such a file; no thread group is left without a file, or
\* with a file of another name, while a file that carries its name went to
\* another thread group.
C24_NameMatchPreferred ==
    AsmContextBuilt =>
        \A i \in 1..Len(AsmBound) :
            /\ OwnFiles(AsmBound[i].tg_name, a_req.json_files) # {}
                  => AsmBound[i].json_filename
                         \in OwnFiles(AsmBound[i].tg_name, a_req.json_files)
            /\ OwnFiles(AsmBound[i].tg_name, a_req.csv_files) # {}
                  => AsmBound[i].csv_filename
                         \in OwnFiles(AsmBound[i].tg_name, a_req.csv_files)

\* among the files no earlier thread group took, one that carries the
\* thread group's name is preferred
NameMatchPreferredAmongUnused ==
    AsmContextBuilt =>
        \A i \in 1..Len(AsmBound) :
            /\ OwnFiles(AsmBound[i].tg_name, a_req.json_files)
                   \ GivenBefore(AsmBound, i, "json") # {}
                  => AsmBound[i].json_filename
                         \in OwnFiles(AsmBound[i].tg_name, a_req.json_files)
            /\ OwnFiles(AsmBound[i].tg_name, a_req.csv_files)
                   \ GivenBefore(AsmBound, i, "csv") # {}
                  => AsmBound[i].csv_filename
                         \in OwnFiles(AsmBound[i].tg_name, a_req.csv_files)


\* C26: every document the assembler produces passes the checks of
\* validate_xml, for every context and every field value of the plan: no
\* inserted value introduces markup.
C26_AssembledDocumentValid == AsmAssembled => validate_xml(a_doc)[1]

\* the texts of a plan that reach the method slot of a sampler
MethodsOf(plan) ==
    IF "thread_groups" \notin DOMAIN plan THEN {}
    ELSE UNION {{plan.thread_groups[i].http_requests[j].method :
                    j \in DOMAIN plan.thread_groups[i].http_requests} :
                 i \in DOMAIN plan.thread_groups}

\* with every plan whose method texts hold no markup the document is valid
ValidWithoutMarkup ==
    (AsmAssembled /\ MethodsOf(a_plan) \subseteq {"POST", "GET"}) => validate_xml(a_doc)[1]


\* the walk leaves the shape alone: an object keeps its keys, an array its
\* length, and a value that matched neither rule is walked or kept
RECURSIVE ShapeKept(_, _, _, _)
ShapeKept(orig, res, variable_set, map) ==
    CASE orig.t = "obj" ->
            /\ res.t = "obj"
            /\ DOMAIN res.f = DOMAIN orig.f
            /\ \A key \in DOMAIN orig.f :
                  \/ key \in variable_set
                  \/ PyStr(orig.f[key]) \in DOMAIN map
                  \/ ShapeKept(orig.f[key], res.f[key], variable_set, map)
      [] orig.t = "arr" ->
            /\ res.t = "arr"
            /\ Len(res.items) = Len(orig.items)
            /\ \A i \in 1..Len(orig.items) :
                  ShapeKept(orig.items[i], res.items[i], variable_set, map)
      [] OTHER -> res = orig

\* the second call has returned
ParamRanTwice == p_pc = "again"

\* C27: parameterization is idempotent and keeps the shape: the function
\* applied to its own output with the same data set returns the same string,
\* and one application never adds or removes a key, never changes the length
\* of an array and never changes a value that matched neither rule.
C27_IdempotentShapePreserving ==
    ParamRanTwice =>
        /\ p_twice = p_out
        /\ Parseable(p_out) /\ Parseable(p_body) =>
              ShapeKept(p_body.val, p_out.val, ParamVars,
                        value_to_placeholder_map(p_csv))

\* one application keeps the shape
ShapePreserved ==
    (ParamRanTwice /\ Parseable(p_out) /\ Parseable(p_body)) =>
        ShapeKept(p_body.val, p_out.val, ParamVars, value_to_placeholder_map(p_csv))

\* no cell of the first data row is itself the placeholder of a variable
NoPlaceholderCell ==
    \A i \in 1..Len(ParamRow) : \A n \in ParamVars : StripS(ParamRow[i]) # Placeholder(n)

\* with such a data set a second application changes nothing
IdempotentWithoutPlaceholderCells ==
    (ParamRanTwice /\ (Len(p_csv.raw_content) >= 2 => NoPlaceholderCell)) => p_twice = p_out


\* the header line of the file as csv.reader yields it (line 1037)
ParamHeaders == p_csv.raw_content[1]

\* the columns of the file whose header is the variable of a placeholder and
\* whose first-row cell is the text s
ColumnsOf(placeholder, s) ==
    {i \in 1..Len(ParamHeaders) :
        /\ i <= Len(ParamRow)
        /\ Placeholder(StripS(ParamHeaders[i])) = placeholder
        /\ StripS(ParamRow[i]) = s}

\* the keys of the body whose value was replaced by value match
ValueMatched ==
    {k \in DOMAIN json_loads(p_body).f :
        k \notin ParamVars /\ Hits(PyStr(json_loads(p_body).f[k])) # {}}

\* C28: the value map is aligned with the columns of the file: a value
\* replaced by value match with ${v} equals the first-row cell of the column
\* whose header is v, and the i-th variable name is paired with the i-th
\* column of the first data row, also with blank header entries and with two
\* columns that hold the same first-row value.
C28_ValueMapColumnAligned ==
    (ParamRan /\ json_loads(p_body).t = "obj") =>
        /\ \A k \in ValueMatched :
              ColumnsOf(json_loads(p_out).f[k].s, PyStr(json_loads(p_body).f[k])) # {}
        /\ \A i \in 1..Len(ParamNames) : ParamNames[i] = StripS(ParamHeaders[i])

\* no entry of the header line is blank
NoBlankHeader == \A i \in 1..Len(ParamHeaders) : StripS(ParamHeaders[i]) # ""

\* with a header line that has no blank entry the map is aligned
AlignedWithoutBlankHeader ==
    (ParamRan /\ json_loads(p_body).t = "obj" /\ NoBlankHeader) =>
        /\ \A k \in ValueMatched :
              ColumnsOf(json_loads(p_out).f[k].s, PyStr(json_loads(p_body).f[k])) # {}
        /\ \A i \in 1..Len(ParamNames) : ParamNames[i] = StripS(ParamHeaders[i])


(***************************************************************************)
(* Termination of generate_jmx_with_retry.  The call is one synchronous     *)
(* function: once entered, each statement is followed by the next, and      *)
(* every call it makes (the LLM client, the parser, the assembler, the       *)
(* validator) returns or raises.  Weak fairness of the steps says that.     *)
(***************************************************************************)
SpecGenLive == GenInit /\ [][GenNext]_vars /\ WF_vars(GenNext)

\* the attempt of run r ended with a parse error, an exception or a
\* validation failure
AttemptFailed(r) ==
    \/ GenPromptFails(r)
    \/ GenParseFails(r)
    \/ GenAttemptRaises(r)
    \/ GenInvalid(r)

\* the call of run r is over
GenDone(r) == g_local[r].pc = "done"

\* C25: the loop is bounded and always ends: at most max_retries attempts
\* are started; the call returns at the first attempt whose document
\* validates and starts no attempt after it; a parse error, an assembly
\* exception or a validation failure ends that attempt only; the call raises
\* after max_retries failed attempts; and every call comes to its end.
C25_LoopBoundedAndTerminates ==
    /\ [](\A r \in Runs :
            /\ g_local[r].started <= max_retries
            /\ g_local[r].out.kind = "returned" =>
                  /\ validate_xml(g_local[r].out.doc)[1]
                  /\ \A i \in 1..Len(g_local[r].validation_errors) :
                        g_local[r].validation_errors[i].kind
                            \in {"ValueError", "JSONDecodeError", "Exception", "invalid"}
                  /\ g_local[r].started = Len(g_local[r].validation_errors) + 1
            /\ g_local[r].out = RaisedOut("Exception") =>
                  Len(g_local[r].validation_errors) = max_retries)
    /\ [][\A r \in Runs :
            /\ AttemptFailed(r) =>
                  /\ g_local'[r].pc = "loop"
                  /\ g_local'[r].out = NoOut
                  /\ g_local'[r].attempt = g_local[r].attempt + 1
            /\ GenDone(r) => g_local'[r] = g_local[r]]_vars
    /\ <>(\A r \in Runs : GenDone(r))

\* a call that raised after a parse error, an exception and a validation
\* failure, one in each of its max_retries attempts
C25_Witness ==
    \E r \in Runs :
        /\ g_local[r].out = RaisedOut("Exception")
        /\ g_local[r].started = max_retries
        /\ Kinds(g_local[r].validation_errors) = {"ValueError", "Exception", "invalid"}


(***************************************************************************)
(* _build_content_generation_prompt (lines 284-412): the structure guide    *)
(* it builds for a context.  A Python list is held by reference; h_heap     *)
(* maps each reference to the list it names.                                *)
(***************************************************************************)
MaxRequests == 2

\* the reference of the list literal of one pass of the request loop, were
\* the two assertion dicts built once for a thread group, before that loop
patterns_once_per_group(tg_index, req_index, assertion) == <<tg_index, 0, assertion>>

\* the reference of the list literal evaluated at line 355 (assertion 1) or
\* line 362 (assertion 2) in one pass of the request loop
patterns_list(tg_index, req_index, assertion) == <<tg_index, req_index, assertion>>

\* the two literals
PatternsLiteral(assertion) ==
    IF assertion = 1 THEN <<"RETURNCODE:0000", "RETURNCODE:E009">> ELSE <<"${TXNSEQ}">>

AssertionName(assertion) ==
    IF assertion = 1 THEN "Response Assertion-Return code" ELSE "Response Assertion-TXNSEQ"

\* lines 350-363: the two assertion dicts of one request
assertions_of(tg_index, req_index) ==
    [assertion \in 1..2 |->
        [name |-> AssertionName(assertion),
         patterns |-> patterns_list(tg_index, req_index, assertion)]]

\* lines 365-372
req_template(req, assertions) ==
    [name |-> req.name, path |-> "/rest", method |-> "POST",
     body |-> IF req.json_body.fmt = "empty" THEN JObj(<<>>) ELSE json_loads(req.json_body),
     assertions |-> assertions]

\* lines 326-374: the template of one thread group of the context
tg_template(tg_context, tg_index) ==
    [name |-> tg_context.name,
     http_requests |->
        [req_index \in 1..Len(tg_context.http_requests) |->
            req_template(tg_context.http_requests[req_index],
                         assertions_of(tg_index, req_index))]]

\* lines 295-374
json_structure_guide(context) ==
    [test_plan_name |-> context.test_plan_name,
     thread_groups |->
        [tg_index \in 1..Len(context.thread_groups) |->
            tg_template(context.thread_groups[tg_index], tg_index)]]

\* the copies of the assertions in a guide: thread group, request, assertion
Copies(guide) ==
    UNION {{<<i, j, a>> : j \in 1..Len(guide.thread_groups[i].http_requests), a \in 1..2} :
             i \in 1..Len(guide.thread_groups)}

\* the list references a guide holds
ReferencesOf(guide) ==
    {guide.thread_groups[c[1]].http_requests[c[2]].assertions[c[3]].patterns : c \in Copies(guide)}

\* the lists the literals create, one for each reference
lists_created(guide) == [ref \in ReferencesOf(guide) |-> PatternsLiteral(ref[3])]

\* a thread group context with n requests
PromptGroup(nm, n, body) ==
    ThreadGroupContext(nm, [j \in 1..n |-> HttpRequestInfo(nm, body, None, FALSE)], <<>>)

\* ThreadGroupContext.http_requests is a list; _prepare_generation_context
\* fills it with one request, the function takes one of any length
PromptContexts ==
    {GenerationContext("Plan", <<PromptGroup("TG-A", n, EmptyBody)>>) : n \in 0..MaxRequests}
    \cup {GenerationContext("Plan", <<PromptGroup("TG-A", n, EmptyBody),
                                      PromptGroup("TG-B", m, EmptyBody)>>) :
             n \in 0..MaxRequests, m \in 0..MaxRequests}
    \cup {GenerationContext("Plan", <<PromptGroup("TG-A", 1, InvalidBody)>>)}

PromptInit ==
    /\ h_ctx \in PromptContexts
    /\ h_guide = <<>>
    /\ h_heap = <<>>
    /\ h_pc = "build"
    /\ PromptOthersIdle

\* the guide is built: every pass of both loops has run
PromptBuild ==
    /\ h_pc = "build"
    /\ ~PromptRaises(h_ctx)
    /\ h_guide' = json_structure_guide(h_ctx)
    /\ h_heap' = lists_created(json_structure_guide(h_ctx))
    /\ h_pc' = "built"
    /\ UNCHANGED h_ctx
    /\ UNCHANGED promptOthers

\* line 369: json.loads raises on a body that is no JSON
PromptBuildRaises ==
    /\ h_pc = "build"
    /\ PromptRaises(h_ctx)
    /\ h_pc' = "raised"
    /\ UNCHANGED <<h_ctx, h_guide, h_heap>>
    /\ UNCHANGED promptOthers

\* the patterns of one copy are changed in place: a pattern is appended to
\* the list, the list is cleared, or its first pattern is assigned
PromptChange ==
    /\ h_pc = "built"
    /\ \E c \in Copies(h_guide), change \in {"append", "clear", "assign"} :
        LET ref == h_guide.thread_groups[c[1]].http_requests[c[2]].assertions[c[3]].patterns IN
        h_heap' = [h_heap EXCEPT ![ref] =
                      CASE change = "append" -> Append(@, "200")
                        [] change = "clear" -> <<>>
                        [] OTHER -> [@ EXCEPT ![1] = "200"]]
    /\ h_pc' = "changed"
    /\ UNCHANGED <<h_ctx, h_guide>>
    /\ UNCHANGED promptOthers

PromptNext ==
    \/ PromptBuild
    \/ PromptBuildRaises
    \/ PromptChange

SpecPrompt == PromptInit /\ [][PromptNext]_vars

\* the patterns a copy of the guide shows
PatternsOf(c) ==
    h_heap[h_guide.thread_groups[c[1]].http_requests[c[2]].assertions[c[3]].patterns]

\* the copies whose patterns are not those of the literal
ChangedCopies == {c \in Copies(h_guide) : PatternsOf(c) # PatternsLiteral(c[3])}

PromptBuilt == h_pc \in {"built", "changed"}

MaxThreads == 2

Threads == 1..MaxThreads
ModelNames == {"default", "m1"}

\* a service object: its class, the model name it was made for, and its
\* identity, the number of objects made before it plus one
ServiceObject(class, model_name, id) == [class |-> class, model_name |-> model_name, id |-> id]

\* the locals of a thread that is about to call a factory
StartCall(op, model_name) ==
    [op |-> op, model_name |-> model_name, llm_name |-> model_name,
     pc |-> IF op = "get_jmx_service" THEN "cache_lookup" ELSE "llm_test",
     ret |-> "caller", llm_svc |-> <<>>, result |-> <<>>, raised |-> FALSE]

Calls ==
    {StartCall(op, model_name) :
        op \in {"get_llm_service", "get_jmx_service"}, model_name \in ModelNames}

\* line 92, the test made without the lock
llm_test(services, model_name) == model_name \notin DOMAIN services

\* the function without the second test: whoever gets the lock constructs
llm_retest_skipped(services, model_name) == TRUE

\* line 94, the test made again with the lock held
llm_retest(services, model_name) == model_name \notin DOMAIN services

\* the wrapper keyed the call by its arguments and found the key
cache_hit(cache, key) == Len(cache) = 1 /\ cache[1].key = key

\* the wrapper without its cache: every call runs the function
cache_store_nothing(cache, key, result) == cache

\* the wrapper stores the result of a miss: a key another thread stored in
\* the meantime is kept, otherwise the one entry is replaced (maxsize=1)
cache_store(cache, key, result) ==
    IF cache_hit(cache, key) THEN cache ELSE <<[key |-> key, value |-> result]>>

MainInit ==
    /\ m_llm_services = <<>>
    /\ m_llm_lock = 0
    /\ m_jmx_service = <<>>
    /\ m_jmx_lock = 0
    /\ m_cache = <<>>
    /\ m_made = <<>>
    /\ m_thread \in [Threads -> Calls]
    /\ MainOthersIdle

\* where a thread goes when get_llm_service returns to its caller
AfterLlm(t) ==
    CASE m_thread[t].ret = "jmx_default" -> "jmx_construct_default"
      [] m_thread[t].ret = "jmx_other" -> "jmx_construct_other"
      [] OTHER -> "done"

\* line 92
LlmTest(t) ==
    /\ m_thread[t].pc = "llm_test"
    /\ m_thread' = [m_thread EXCEPT ![t].pc =
            IF llm_test(m_llm_services, m_thread[t].llm_name)
            THEN "llm_acquire" ELSE "llm_return"]
    /\ UNCHANGED <<m_llm_services, m_llm_lock, m_jmx_service, m_jmx_lock, m_cache, m_made>>
    /\ UNCHANGED mainOthers

\* line 93, the lock is free and the thread takes it
LlmAcquire(t) ==
    /\ m_thread[t].pc = "llm_acquire"
    /\ m_llm_lock = 0
    /\ m_llm_lock' = t
    /\ m_thread' = [m_thread EXCEPT ![t].pc = "llm_retest"]
    /\ UNCHANGED <<m_llm_services, m_jmx_service, m_jmx_lock, m_cache, m_made>>
    /\ UNCHANGED mainOthers

\* line 94: another thread stored the service; the with block is left
LlmRetestFound(t) ==
    /\ m_thread[t].pc = "llm_retest"
    /\ ~llm_retest(m_llm_services, m_thread[t].llm_name)
    /\ m_llm_lock' = 0
    /\ m_thread' = [m_thread EXCEPT ![t].pc = "llm_return"]
    /\ UNCHANGED <<m_llm_services, m_jmx_service, m_jmx_lock, m_cache, m_made>>
    /\ UNCHANGED mainOthers

\* lines 94-97: LLMService(config=config) returns and the dict gets the entry
LlmConstruct(t) ==
    /\ m_thread[t].pc = "llm_retest"
    /\ llm_retest(m_llm_services, m_thread[t].llm_name)
    /\ \E obj \in {ServiceObject("LLMService", m_thread[t].llm_name, Len(m_made) + 1)} :
          /\ m_made' = Append(m_made, obj)
          /\ m_llm_services' = (m_thread[t].llm_name :> obj) @@ m_llm_services
    /\ m_thread' = [m_thread EXCEPT ![t].pc = "llm_exit"]
    /\ UNCHANGED <<m_llm_lock, m_jmx_service, m_jmx_lock, m_cache>>
    /\ UNCHANGED mainOthers

\* lines 94-100: LLMService(config=config) raises; the with blocks on the
\* way out release their locks and the caller gets the exception
LlmConstructRaises(t) ==
    /\ m_thread[t].pc = "llm_retest"
    /\ llm_retest(m_llm_services, m_thread[t].llm_name)
    /\ m_llm_lock' = 0
    /\ m_jmx_lock' = IF m_jmx_lock = t THEN 0 ELSE m_jmx_lock
    /\ m_thread' = [m_thread EXCEPT ![t].pc = "done", ![t].raised = TRUE]
    /\ UNCHANGED <<m_llm_services, m_jmx_service, m_cache, m_made>>
    /\ UNCHANGED mainOthers

\* the with block of line 93 is left after the store
LlmExit(t) ==
    /\ m_thread[t].pc = "llm_exit"
    /\ m_llm_lock' = 0
    /\ m_thread' = [m_thread EXCEPT ![t].pc = "llm_return"]
    /\ UNCHANGED <<m_llm_services, m_jmx_service, m_jmx_lock, m_cache, m_made>>
    /\ UNCHANGED mainOthers

\* line 102
LlmReturn(t) ==
    /\ m_thread[t].pc = "llm_return"
    /\ m_thread' = [m_thread EXCEPT
            ![t].pc = AfterLlm(t),
            ![t].llm_svc = <<m_llm_services[m_thread[t].llm_name]>>,
            ![t].result = IF m_thread[t].ret = "caller"
                          THEN <<m_llm_services[m_thread[t].llm_name]>> ELSE @]
    /\ UNCHANGED <<m_llm_services, m_llm_lock, m_jmx_service, m_jmx_lock, m_cache, m_made>>
    /\ UNCHANGED mainOthers

\* line 104, the wrapper finds the key and returns the stored object
CacheHit(t) ==
    /\ m_thread[t].pc = "cache_lookup"
    /\ cache_hit(m_cache, m_thread[t].model_name)
    /\ m_thread' = [m_thread EXCEPT ![t].pc = "done", ![t].result = <<m_cache[1].value>>]
    /\ UNCHANGED <<m_llm_services, m_llm_lock, m_jmx_service, m_jmx_lock, m_cache, m_made>>
    /\ UNCHANGED mainOthers

\* line 104, the wrapper misses and calls the function: lines 118-119 for
\* "default", lines 132-133 for another name
CacheMiss(t) ==
    /\ m_thread[t].pc = "cache_lookup"
    /\ ~cache_hit(m_cache, m_thread[t].model_name)
    /\ m_thread' = [m_thread EXCEPT
            ![t].pc = CASE m_thread[t].model_name # "default" -> "llm_test"
                        [] m_jmx_service = <<>> -> "jmx_acquire"
                        [] OTHER -> "jmx_return",
            ![t].ret = IF m_thread[t].model_name # "default" THEN "jmx_other" ELSE @]
    /\ UNCHANGED <<m_llm_services, m_llm_lock, m_jmx_service, m_jmx_lock, m_cache, m_made>>
    /\ UNCHANGED mainOthers

\* line 120
JmxAcquire(t) ==
    /\ m_thread[t].pc = "jmx_acquire"
    /\ m_jmx_lock = 0
    /\ m_jmx_lock' = t
    /\ m_thread' = [m_thread EXCEPT ![t].pc = "jmx_retest"]
    /\ UNCHANGED <<m_llm_services, m_llm_lock, m_jmx_service, m_cache, m_made>>
    /\ UNCHANGED mainOthers

\* line 121: another thread set _jmx_service; the with block is left
JmxRetestFound(t) ==
    /\ m_thread[t].pc = "jmx_retest"
    /\ m_jmx_service # <<>>
    /\ m_jmx_lock' = 0
    /\ m_thread' = [m_thread EXCEPT ![t].pc = "jmx_return"]
    /\ UNCHANGED <<m_llm_services, m_llm_lock, m_jmx_service, m_cache, m_made>>
    /\ UNCHANGED mainOthers

\* lines 121-123: get_llm_service() is called with the lock held
JmxCallsLlm(t) ==
    /\ m_thread[t].pc = "jmx_retest"
    /\ m_jmx_service = <<>>
    /\ m_thread' = [m_thread EXCEPT ![t].pc = "llm_test", ![t].llm_name = "default",
                                    ![t].ret = "jmx_default"]
    /\ UNCHANGED <<m_llm_services, m_llm_lock, m_jmx_service, m_jmx_lock, m_cache, m_made>>
    /\ UNCHANGED mainOthers

\* line 124: the service is constructed and stored in the global; the with
\* block is left
JmxConstructDefault(t) ==
    /\ m_thread[t].pc = "jmx_construct_default"
    /\ \E obj \in {ServiceObject("JMXGeneratorService", "default", Len(m_made) + 1)} :
          /\ m_made' = Append(m_made, obj)
          /\ m_jmx_service' = <<obj>>
    /\ m_jmx_lock' = 0
    /\ m_thread' = [m_thread EXCEPT ![t].pc = "jmx_return"]
    /\ UNCHANGED <<m_llm_services, m_llm_lock, m_cache>>
    /\ UNCHANGED mainOthers

\* lines 124-128 and 134-139: JMXGeneratorService(...) raises
JmxConstructRaises(t) ==
    /\ m_thread[t].pc \in {"jmx_construct_default", "jmx_construct_other"}
    /\ m_jmx_lock' = IF m_jmx_lock = t THEN 0 ELSE m_jmx_lock
    /\ m_thread' = [m_thread EXCEPT ![t].pc = "done", ![t].raised = TRUE]
    /\ UNCHANGED <<m_llm_services, m_llm_lock, m_jmx_service, m_cache, m_made>>
    /\ UNCHANGED mainOthers

\* lines 134-136: a service of its own for a name other than "default"
JmxConstructOther(t) ==
    /\ m_thread[t].pc = "jmx_construct_other"
    /\ \E obj \in {ServiceObject("JMXGeneratorService", m_thread[t].model_name,
                                 Len(m_made) + 1)} :
          /\ m_made' = Append(m_made, obj)
          /\ m_thread' = [m_thread EXCEPT ![t].pc = "cache_store", ![t].result = <<obj>>]
    /\ UNCHANGED <<m_llm_services, m_llm_lock, m_jmx_service, m_jmx_lock, m_cache>>
    /\ UNCHANGED mainOthers

\* line 129
JmxReturnDefault(t) ==
    /\ m_thread[t].pc = "jmx_return"
    /\ m_thread' = [m_thread EXCEPT ![t].pc = "cache_store", ![t].result = m_jmx_service]
    /\ UNCHANGED <<m_llm_services, m_llm_lock, m_jmx_service, m_jmx_lock, m_cache, m_made>>
    /\ UNCHANGED mainOthers

\* line 104, the wrapper stores what the function returned and returns it
CacheStore(t) ==
    /\ m_thread[t].pc = "cache_store"
    /\ m_cache' = cache_store(m_cache, m_thread[t].model_name, m_thread[t].result[1])
    /\ m_thread' = [m_thread EXCEPT ![t].pc = "done"]
    /\ UNCHANGED <<m_llm_services, m_llm_lock, m_jmx_service, m_jmx_lock, m_made>>
    /\ UNCHANGED mainOthers

MainNext ==
    \/ \E t \in Threads : LlmTest(t)
    \/ \E t \in Threads : LlmAcquire(t)
    \/ \E t \in Threads : LlmRetestFound(t)
    \/ \E t \in Threads : LlmConstruct(t)
    \/ \E t \in Threads : LlmConstructRaises(t)
    \/ \E t \in Threads : LlmExit(t)
    \/ \E t \in Threads : LlmReturn(t)
    \/ \E t \in Threads : CacheHit(t)
    \/ \E t \in Threads : CacheMiss(t)
    \/ \E t \in Threads : JmxAcquire(t)
    \/ \E t \in Threads : JmxRetestFound(t)
    \/ \E t \in Threads : JmxCallsLlm(t)
    \/ \E t \in Threads : JmxConstructDefault(t)
    \/ \E t \in Threads : JmxConstructRaises(t)
    \/ \E t \in Threads : JmxConstructOther(t)
    \/ \E t \in Threads : JmxReturnDefault(t)
    \/ \E t \in Threads : CacheStore(t)

SpecMain == MainInit /\ [][MainNext]_vars


\* the objects of a class made for a model name
MadeFor(class, model_name) ==
    {i \in 1..Len(m_made) : m_made[i].class = class /\ m_made[i].model_name = model_name}

\* the threads whose call of get_llm_service has returned an object
LlmReturned == {t \in Threads : m_thread[t].llm_svc # <<>>}

\* C29: under every interleaving of the callers at most one LLMService is
\* constructed for a model name, every caller gets that one, and a
\* construction that failed leaves no entry for the name.
C29_OneLlmServicePerName ==
    /\ \A n \in ModelNames : Cardinality(MadeFor("LLMService", n)) <= 1
    /\ \A n \in ModelNames :
          (n \in DOMAIN m_llm_services) <=> (MadeFor("LLMService", n) # {})
    /\ \A n \in DOMAIN m_llm_services :
          /\ m_llm_services[n].class = "LLMService"
          /\ m_llm_services[n].model_name = n
    /\ \A t \in LlmReturned :
          m_thread[t].llm_svc = <<m_llm_services[m_thread[t].llm_name]>>

\* two threads asked for the same name at the same time: both passed the
\* test of line 92, one constructed the service and both returned it
C29_Witness ==
    \E t, u \in Threads :
        /\ t # u
        /\ m_thread[t].op = "get_llm_service" /\ m_thread[u].op = "get_llm_service"
        /\ m_thread[t].pc = "done" /\ m_thread[u].pc = "llm_retest"
        /\ m_thread[t].llm_name = m_thread[u].llm_name
        /\ m_thread[t].result # <<>>

\* a construction failed, no entry was left, and a later call constructed
\* the service
C29_FailedThenMade ==
    \E t, u \in Threads :
        /\ m_thread[t].op = "get_llm_service" /\ m_thread[u].op = "get_llm_service"
        /\ m_thread[t].llm_name = m_thread[u].llm_name
        /\ m_thread[t].raised
        /\ m_thread[u].pc = "done" /\ m_thread[u].result # <<>>


\* the threads whose call of get_jmx_service with this name has returned
JmxReturned(model_name) ==
    {t \in Threads :
        /\ m_thread[t].op = "get_jmx_service"
        /\ m_thread[t].model_name = model_name
        /\ m_thread[t].pc = "done"
        /\ ~m_thread[t].raised}

\* C30: get_jmx_service returns the one shared instance for "default",
\* constructed at most once also under concurrent callers, and a new
\* instance for every call with another model name.
C30_SharedDefaultNewOtherwise ==
    /\ Cardinality(MadeFor("JMXGeneratorService", "default")) <= 1
    /\ \A t \in JmxReturned("default") : m_thread[t].result = m_jmx_service
    /\ \A n \in ModelNames \ {"default"} :
          \A t, u \in JmxReturned(n) : t # u => m_thread[t].result # m_thread[u].result

\* the part for "default": one instance, constructed at most once, and
\* every caller gets it
DefaultInstanceShared ==
    /\ Cardinality(MadeFor("JMXGeneratorService", "default")) <= 1
    /\ \A t \in JmxReturned("default") :
          /\ m_jmx_service # <<>>
          /\ m_thread[t].result = m_jmx_service

\* a call with another name returns an instance made for that name
OtherNameGetsItsOwnKind ==
    \A n \in ModelNames \ {"default"} :
        \A t \in JmxReturned(n) :
            /\ m_thread[t].result[1].class = "JMXGeneratorService"
            /\ m_thread[t].result[1].model_name = n

====
